---- MODULE Spec2Model ----
(***************************************************************************)
(* Ludwig: remote control of audio mixing consoles.                        *)
(*                                                                         *)
(* The subsystems of the repository are modelled each under its own        *)
(* specification over its own variables:                                   *)
(*   SpecMidi  - the pluggy/rtmidi boards (Midi, Qu24, Command8): hook     *)
(*               calls from the caller thread and from the rtmidi input    *)
(*               callback thread, each send to a transport being one step. *)
(*   SpecState - ludwig.server.state.StateManager with its plugins, run by *)
(*               one asyncio event loop: a coroutine is atomic between two *)
(*               awaits that can suspend.                                  *)
(*   SpecWs    - ludwig.server.websocket.ConnectionManager and the         *)
(*               endpoints that call it; every send_json is an await.      *)
(*   SpecParam - StateManager.apply_parameter_change on dotted paths.      *)
(*   SpecXAir  - boards.xair.XAirPlugin (a BoardPlugin) on its MIDI ports, *)
(*               called directly and through the StateManager.             *)
(*   SpecEndpoint - the websocket_endpoint coroutine of each observer:     *)
(*               registration, initial snapshot, receive loop.             *)
(*   SpecMeter - meter_broadcast_loop as the task lifespan creates and     *)
(*               cancels, with the fairness of the event loop.             *)
(*   SpecLifecycle - devices registered with and removed from the state    *)
(*               manager.                                                  *)
(*   SpecCC    - the Control-Change builders of Command8 and Gld.          *)
(*   SpecCompressor - the compressor builders of Qu24 and Gld.             *)
(*   SpecCodec - the XAir codec: value translations, the CC-number mapping *)
(*               in both directions and the inbound handler.               *)
(*   SpecRequest - a REST or WebSocket change request, from the state      *)
(*               manager's store to the delivery of its broadcast.         *)
(*   SpecSnapshot - an endpoint connecting while broadcasts are in         *)
(*               progress.                                                 *)
(***************************************************************************)
EXTENDS Integers, Sequences, FiniteSets, TLC

VARIABLES
    \* ---- SpecMidi ----
    midiChannel,   \* Midi.channel of the Qu24 instance
    wire,          \* per device, the messages handed to Midi.midi.send_message
    todo,          \* per thread, the sends its running hook call has still to make
    opLog,         \* history: the hook calls and inbound callbacks started so far
    \* ---- SpecState ----
    plugins,       \* StateManager._plugins: the device ids, in insertion order
    stateRef,      \* StateManager._state: "None" or the plugin whose MixerState it is
    pstate,        \* per plugin, BoardPlugin._state (a MixerState object, or none yet)
    settling,      \* recall_scene coroutines suspended in asyncio.sleep(0.1)
    lastOp,        \* history: the last StateManager operation and what it did
    \* ---- SpecWs ----
    connections,   \* ConnectionManager._connections
    subscriptions, \* ConnectionManager._subscriptions (a key is present or not)
    open,          \* the observers whose websocket_endpoint coroutine is running
    tasks,         \* the broadcasts in progress, each suspended in a send_json
    lastDone,      \* history: what the broadcast that finished last did, until the next starts
    \* ---- SpecXAir: the XAirPlugin registered as "p1" ----
    _connected,    \* BoardPlugin._connected
    _midi_out,     \* XAirPlugin._midi_out: "None" or "port"
    _midi_in,      \* XAirPlugin._midi_in: "None" or "port"
    xlast,         \* history: the last plugin operation and what it did
    \* ---- SpecEndpoint: the websocket_endpoint coroutines ----
    pc,            \* per observer, where its websocket_endpoint coroutine stands
    sending,       \* per observer, the message its endpoint is awaiting send_json on
    inbox,         \* per observer, the messages its endpoint has sent it, in order
    atConnect,     \* history: per observer, StateManager._state when it was registered
    \* ---- SpecMeter: the meter task created by lifespan ----
    meter_pc,      \* the await meter_broadcast_loop is suspended in, or "created" / "done"
    meter_to,      \* broadcast_meters: the connection whose send_json is awaited (0: none)
    meter_i,       \* broadcast_meters: the list index its for-loop takes next
    meter_disconnected, \* broadcast_meters: its local list `disconnected`
    cancel_pending,     \* a CancelledError is due at the task's next step
    cancel_requested,   \* history: lifespan has called meter_task.cancel()
    _meters,       \* StateManager._meters is non-empty
    mlast          \* history: the last step of the meter task

midiVars == <<midiChannel, wire, todo, opLog>>
stateVars == <<plugins, stateRef, pstate, settling, lastOp>>

wsVars == <<connections, subscriptions, open, tasks, lastDone>>

xairVars == <<_connected, _midi_out, _midi_in, xlast>>

endpointVars == <<pc, sending, inbox, atConnect>>

meterVars == <<meter_pc, meter_to, meter_i, meter_disconnected, cancel_pending,
              cancel_requested, _meters, mlast>>

vars == <<midiVars, stateVars, wsVars, xairVars, endpointVars, meterVars>>

(***************************************************************************)
(* Bounds                                                                  *)
(***************************************************************************)
MaxOps == 2
MaxRecallTasks == 1
MaxBroadcasts == 1

(***************************************************************************)
(* rtmidi.midiconstants                                                    *)
(***************************************************************************)
CONTROL_CHANGE == 176
NOTE_ON == 144

RECURSIVE BitOr(_, _)
BitOr(a, b) ==
    IF a = 0 THEN b
    ELSE IF b = 0 THEN a
    ELSE (IF a % 2 = 1 \/ b % 2 = 1 THEN 1 ELSE 0) + 2 * BitOr(a \div 2, b \div 2)

RECURSIVE BitAnd(_, _)
BitAnd(a, b) ==
    IF a = 0 \/ b = 0 THEN 0
    ELSE (IF a % 2 = 1 /\ b % 2 = 1 THEN 1 ELSE 0) + 2 * BitAnd(a \div 2, b \div 2)

(***************************************************************************)
(* SpecState: ludwig.server.state.StateManager                             *)
(*                                                                         *)
(* Levels and pans are counted in units of 1/254, so that 1.0 is 254 and   *)
(* 0.5 is 127. A channel id "input_1" is the pair <<"input", 1>>, "main"   *)
(* is <<"main", 0>>.                                                       *)
(***************************************************************************)
Unit == 254

PluginIds == {"p1", "p2"}

\* models.EQBand, Equalizer (cut to its first band), Compressor and Gate with
\* their defaults. Frequencies are in Hz, q in tenths, ratio in units, knee
\* in units of 1/254, hold_ms in ms.
EQBand == [frequency |-> 80, gain |-> 0, q |-> 10]
Equalizer == [enabled |-> TRUE, bands |-> <<EQBand>>]
Compressor == [enabled |-> FALSE, ratio |-> 4, knee |-> 127]
Gate == [enabled |-> FALSE, hold_ms |-> 50]

\* BoardPlugin._create_default_channels, cut to the first input and main.
DefaultChannel ==
    [fader |-> 0, mute |-> FALSE, solo |-> FALSE, pan |-> 0,
     eq |-> Equalizer, compressor |-> Compressor, gate |-> Gate]
DeclaredChannels == {<<"input", 1>>, <<"main", 0>>}
_create_default_channels == [c \in DeclaredChannels |-> DefaultChannel]

NoMixerState == [exists |-> FALSE, channels |-> _create_default_channels]

\* Inputs of the operations.
ChannelArgs == {<<"input", 1>>, <<"input", 9>>}
LevelArgs == {-127, 127, 381}
PanArgs == {-762}
HardwareLevels == {128}

Max(a, b) == IF a >= b THEN a ELSE b
Min(a, b) == IF a <= b THEN a ELSE b

\* level = max(0.0, min(1.0, level))
ClampFader(level) == Max(0, Min(Unit, level))
\* pan = max(-1.0, min(1.0, pan))
ClampPan(pan) == Max(0 - Unit, Min(Unit, pan))

NoOp ==
    [op |-> "none", ch |-> <<"", 0>>, param |-> "", req |-> 0, applied |-> FALSE,
     passed |-> 0, targets |-> <<>>, got |-> {}, raiser |-> "None",
     overlapped |-> FALSE, result |-> "None", changed |-> FALSE, repeat |-> FALSE,
     disconnects |-> <<>>]

Range(seq) == {seq[i] : i \in 1..Len(seq)}

\* self._state (falsy when None) and its channels
HasState == stateRef # "None"
Channels == IF HasState THEN pstate[stateRef].channels ELSE << >>
KnownChannel(ch) == HasState /\ ch \in DOMAIN pstate[stateRef].channels

\* BoardPlugin.sync_state: creates the plugin's MixerState when it has none.
sync_state(ps, p) ==
    IF ps[p].exists THEN ps
    ELSE [ps EXCEPT ![p] = [exists |-> TRUE, channels |-> _create_default_channels]]

\* BoardPlugin.set_fader / set_mute / set_pan after the send went through:
\* the plugin's own MixerState, when it has the channel, takes the value.
PluginSet(ps, p, ch, field, value) ==
    IF ps[p].exists /\ ch \in DOMAIN ps[p].channels
    THEN [ps EXCEPT ![p].channels[ch][field] = value]
    ELSE ps

\* for plugin in self._plugins.values(): plugin.set_xxx(channel_id, value)
\* The plugins before position stop have returned; the one at stop (if any)
\* raised out of its transport send before touching its own state.
RECURSIVE Dispatch(_, _, _, _, _, _)
Dispatch(ps, targets, stop, ch, field, value) ==
    IF targets = <<>> \/ stop = 1 THEN ps
    ELSE Dispatch(PluginSet(ps, Head(targets), ch, field, value),
                  Tail(targets), stop - 1, ch, field, value)

\* The positions at which a dispatch can stop: Len + 1 when no plugin raises.
Stops(targets) == 1..(Len(targets) + 1)
Reached(targets, stop) == {targets[i] : i \in 1..Min(stop, Len(targets))}
Raiser(targets, stop) == IF stop <= Len(targets) THEN targets[stop] ELSE "None"

\* History: this call of apply_parameter_change carries the ParameterChange
\* of the call just before it.
Repeats(name, ch, parameter, value) ==
    /\ name = "apply_parameter_change" /\ lastOp.op = name
    /\ lastOp.ch = ch /\ lastOp.param = parameter /\ lastOp.req = value

\* The body shared by set_fader, set_mute and set_pan: store the value in the
\* canonical channel, then hand it to every plugin in turn.
StoreAndDispatch(name, ch, field, req, value, stop) ==
    /\ pstate' = Dispatch([pstate EXCEPT ![stateRef].channels[ch][field] = value],
                          plugins, stop, ch, field, value)
    /\ lastOp' = [op |-> name, ch |-> ch, param |-> field, req |-> req,
                  applied |-> TRUE, passed |-> value, targets |-> plugins,
                  got |-> Reached(plugins, stop), raiser |-> Raiser(plugins, stop),
                  overlapped |-> settling > 0,
                  result |-> IF stop <= Len(plugins) THEN "raised" ELSE "None",
                  changed |-> pstate[stateRef].channels[ch][field] # value,
                  repeat |-> Repeats(name, ch, field, req),
                  disconnects |-> <<>>]
    /\ UNCHANGED <<plugins, stateRef, settling>>

\* The early return of the setters: no state, or a channel id not in it.
NotFound(name, ch, field, req) ==
    /\ lastOp' = [op |-> name, ch |-> ch, param |-> field, req |-> req,
                  applied |-> FALSE, passed |-> 0, targets |-> plugins,
                  got |-> {}, raiser |-> "None", overlapped |-> settling > 0,
                  result |-> "None", changed |-> FALSE,
                  repeat |-> Repeats(name, ch, field, req),
                  disconnects |-> <<>>]
    /\ UNCHANGED <<plugins, stateRef, pstate, settling>>

StateManager_set_fader(name, ch, level, stop) ==
    IF ~KnownChannel(ch) THEN stop = 1 /\ NotFound(name, ch, "fader", level)
    ELSE StoreAndDispatch(name, ch, "fader", level, ClampFader(level), stop)

StateManager_set_mute_toggle(name, ch, muted, stop) ==
    IF ~KnownChannel(ch) THEN stop = 1 /\ NotFound(name, ch, "mute", muted)
    ELSE StoreAndDispatch(name, ch, "mute", muted,
                          ~pstate[stateRef].channels[ch].mute, stop)

StateManager_set_mute(name, ch, muted, stop) ==
    IF ~KnownChannel(ch) THEN stop = 1 /\ NotFound(name, ch, "mute", muted)
    ELSE StoreAndDispatch(name, ch, "mute", muted, muted, stop)

StateManager_set_pan(name, ch, pan, stop) ==
    IF ~KnownChannel(ch) THEN stop = 1 /\ NotFound(name, ch, "pan", pan)
    ELSE StoreAndDispatch(name, ch, "pan", pan, ClampPan(pan), stop)

\* What connect_device is to do once its body is written (the commented
\* plan in the source): register the plugin and take its sync_state().
InstallPlugin(p) ==
    /\ p \notin Range(plugins)
    /\ plugins' = Append(plugins, p)
    /\ pstate' = sync_state(pstate, p)
    /\ stateRef' = p
    /\ lastOp' = [NoOp EXCEPT !.op = "connect", !.overlapped = settling > 0]
    /\ UNCHANGED <<settling>>

set_fader(ch, level, stop) ==
    /\ stop \in Stops(plugins)
    /\ StateManager_set_fader("set_fader", ch, level, stop)
    /\ UNCHANGED <<midiVars, wsVars, xairVars, endpointVars, meterVars>>

set_mute(ch, muted, stop) ==
    /\ stop \in Stops(plugins)
    /\ StateManager_set_mute("set_mute", ch, muted, stop)
    /\ UNCHANGED <<midiVars, wsVars, xairVars, endpointVars, meterVars>>

set_pan(ch, pan, stop) ==
    /\ stop \in Stops(plugins)
    /\ StateManager_set_pan("set_pan", ch, pan, stop)
    /\ UNCHANGED <<midiVars, wsVars, xairVars, endpointVars, meterVars>>

\* parameter.split("."): the parts of the dotted paths that are applied here;
\* a part that isdigit() carries the number it denotes.
Attr(name) == [digit |-> FALSE, key |-> name]
Digit(n) == [digit |-> TRUE, key |-> n]

Split(parameter) ==
    CASE parameter = "compressor.ratio" -> <<Attr("compressor"), Attr("ratio")>>
      [] parameter = "compressor.foo" -> <<Attr("compressor"), Attr("foo")>>
      [] parameter = "gate.hold_ms" -> <<Attr("gate"), Attr("hold_ms")>>
      [] parameter = "eq.bands.0.gain" ->
            <<Attr("eq"), Attr("bands"), Digit(0), Attr("gain")>>
      [] parameter = "eq.bands.9.gain" ->
            <<Attr("eq"), Attr("bands"), Digit(9), Attr("gain")>>
      [] parameter = "eq.bands.0" -> <<Attr("eq"), Attr("bands"), Digit(0)>>
      [] OTHER -> <<Attr(parameter)>>

\* parameter.startswith("eq.") and its like
StartsWith(parameter, prefix) ==
    Len(Split(parameter)) > 1 /\ Head(Split(parameter)).key = prefix

\* _apply_nested_parameter: walk obj[int(part)] / getattr(obj, part) along
\* all parts but the last, then obj[int(part)] = value / setattr. A missing
\* index or attribute raises (IndexError, AttributeError, pydantic's
\* ValueError for an unknown field) before anything is written; an existing
\* one takes the value as it is. A list slot that takes a bare value v in
\* place of its object holds [raw |-> v].
RECURSIVE _apply_nested_parameter(_, _, _)
_apply_nested_parameter(obj, parts, value) ==
    LET part == Head(parts)
        key == IF part.digit THEN part.key + 1 ELSE part.key
    IN  IF key \notin DOMAIN obj THEN [raised |-> TRUE, obj |-> obj]
        ELSE IF Len(parts) = 1
        THEN [raised |-> FALSE,
              obj |-> [obj EXCEPT ![key] = IF part.digit THEN [raw |-> value] ELSE value]]
        ELSE LET r == _apply_nested_parameter(obj[key], Tail(parts), value)
             IN  [raised |-> r.raised, obj |-> [obj EXCEPT ![key] = r.obj]]

\* The eq. / compressor. / gate. branches of apply_parameter_change: the
\* canonical channel's object is written, nothing is dispatched.
ApplyNested(ch, parameter, value) ==
    LET top == Head(Split(parameter)).key
        r == _apply_nested_parameter(pstate[stateRef].channels[ch][top],
                                     Tail(Split(parameter)), value)
    IN  /\ pstate' = [pstate EXCEPT ![stateRef].channels[ch][top] = r.obj]
        /\ lastOp' = [op |-> "apply_parameter_change", ch |-> ch,
                      param |-> parameter, req |-> value, applied |-> ~r.raised,
                      passed |-> value, targets |-> plugins, got |-> {},
                      raiser |-> "None", overlapped |-> settling > 0,
                      result |-> IF r.raised THEN "raised" ELSE "None",
                      changed |-> pstate[stateRef].channels[ch][top] # r.obj,
                      repeat |-> Repeats("apply_parameter_change", ch, parameter, value),
                      disconnects |-> <<>>]
        /\ UNCHANGED <<plugins, stateRef, settling>>

\* No branch of apply_parameter_change matches the parameter: it returns.
ApplyNothing(ch, parameter, value) ==
    /\ lastOp' = [op |-> "apply_parameter_change", ch |-> ch,
                  param |-> parameter, req |-> value, applied |-> FALSE,
                  passed |-> value, targets |-> plugins, got |-> {},
                  raiser |-> "None", overlapped |-> settling > 0,
                  result |-> "None", changed |-> FALSE,
                  repeat |-> Repeats("apply_parameter_change", ch, parameter, value),
                  disconnects |-> <<>>]
    /\ UNCHANGED <<plugins, stateRef, pstate, settling>>

\* The ParameterChange (parameter, value) pairs that are applied.
ParameterChanges ==
    {<<"fader", 381>>, <<"mute", TRUE>>, <<"mute", FALSE>>, <<"pan", -762>>,
     <<"solo", TRUE>>, <<"compressor.ratio", 1000>>, <<"compressor.ratio", 8>>,
     <<"gate.hold_ms", 20>>, <<"eq.bands.0.gain", 3>>, <<"eq.bands.0", 7>>,
     <<"eq.bands.9.gain", 3>>, <<"compressor.foo", 1>>, <<"foo", 1>>}

\* apply_parameter_change: fader, mute and pan go through the setters; solo
\* and the eq. / compressor. / gate. paths are written to the canonical
\* channel and not dispatched; any other parameter is ignored.
apply_parameter_change(ch, parameter, value, stop) ==
    /\ stop \in Stops(plugins)
    /\ IF ~KnownChannel(ch) THEN
            stop = 1 /\ NotFound("apply_parameter_change", ch, parameter, value)
       ELSE IF parameter = "fader" THEN
            StateManager_set_fader("apply_parameter_change", ch, value, stop)
       ELSE IF parameter = "mute" THEN
            StateManager_set_mute("apply_parameter_change", ch, value, stop)
       ELSE IF parameter = "pan" THEN
            StateManager_set_pan("apply_parameter_change", ch, value, stop)
       ELSE IF StartsWith(parameter, "eq") \/ StartsWith(parameter, "compressor")
                  \/ StartsWith(parameter, "gate") THEN
            stop = 1 /\ ApplyNested(ch, parameter, value)
       ELSE IF parameter # "solo" THEN
            stop = 1 /\ ApplyNothing(ch, parameter, value)
       ELSE /\ stop = 1
            /\ pstate' = [pstate EXCEPT ![stateRef].channels[ch].solo = value]
            /\ lastOp' = [op |-> "apply_parameter_change", ch |-> ch,
                          param |-> parameter, req |-> value, applied |-> TRUE,
                          passed |-> value, targets |-> plugins, got |-> {},
                          raiser |-> "None", overlapped |-> settling > 0,
                          result |-> "None",
                          changed |-> pstate[stateRef].channels[ch].solo # value,
                          repeat |-> Repeats("apply_parameter_change", ch, parameter, value),
                          disconnects |-> <<>>]
            /\ UNCHANGED <<plugins, stateRef, settling>>
    /\ UNCHANGED <<midiVars, wsVars, xairVars, endpointVars, meterVars>>

\* recall_scene up to its await: plugin.recall_scene(n) on every plugin.
\* BoardPlugin and XAirPlugin define no recall_scene, so with a plugin
\* registered the first call raises AttributeError and the coroutine ends;
\* with none registered the loop is empty and the coroutine goes to sleep.
recall_scene(scene_number) ==
    /\ IF plugins # <<>> THEN
            /\ lastOp' = [NoOp EXCEPT !.op = "recall_scene", !.req = scene_number,
                                      !.targets = plugins, !.raiser = plugins[1],
                                      !.result = "raised",
                                      !.overlapped = settling > 0]
            /\ UNCHANGED settling
       ELSE /\ settling < MaxRecallTasks
            /\ settling' = settling + 1
            /\ lastOp' = [NoOp EXCEPT !.op = "recall_scene", !.req = scene_number,
                                      !.applied = TRUE, !.overlapped = settling > 0]
    /\ UNCHANGED <<plugins, stateRef, pstate, midiVars, wsVars, xairVars, endpointVars, meterVars>>

RECURSIVE SyncAll(_, _)
SyncAll(ps, targets) ==
    IF targets = <<>> THEN ps ELSE SyncAll(sync_state(ps, Head(targets)), Tail(targets))

\* recall_scene after the sleep: self._state = plugin.sync_state() for every
\* plugin registered by then; the last one's MixerState stays.
recall_scene_sync ==
    /\ settling > 0
    /\ settling' = settling - 1
    /\ pstate' = SyncAll(pstate, plugins)
    /\ stateRef' = IF plugins = <<>> THEN stateRef ELSE plugins[Len(plugins)]
    /\ lastOp' = [NoOp EXCEPT !.op = "recall_scene_sync", !.applied = TRUE,
                              !.targets = plugins, !.got = Range(plugins)]
    /\ UNCHANGED <<plugins, midiVars, wsVars, xairVars, endpointVars, meterVars>>

\* disconnect_device: under the lock; the plugin is disconnected and dropped,
\* self._state stays as it is.
disconnect_device_keeps(device_id) == plugins
disconnect_device_del(device_id) == SelectSeq(plugins, LAMBDA q : q # device_id)

disconnect_device(device_id) ==
    /\ plugins' = disconnect_device_del(device_id)
    /\ lastOp' = [NoOp EXCEPT !.op = "disconnect_device",
                              !.applied = device_id \in Range(plugins),
                              !.disconnects = SelectSeq(plugins, LAMBDA q : q = device_id),
                              !.targets = plugins,
                              !.got = Range(plugins) \cap {device_id},
                              !.overlapped = settling > 0]
    /\ UNCHANGED <<stateRef, pstate, settling, midiVars, wsVars, xairVars, endpointVars, meterVars>>

\* disconnect_all: under the lock; every plugin is disconnected, the
\* registry is cleared and the state dropped.
disconnect_all ==
    /\ plugins' = <<>>
    /\ stateRef' = "None"
    /\ lastOp' = [NoOp EXCEPT !.op = "disconnect_all", !.applied = TRUE,
                              !.targets = plugins, !.got = Range(plugins),
                              !.disconnects = plugins,
                              !.overlapped = settling > 0]
    /\ UNCHANGED <<pstate, settling, midiVars, wsVars, xairVars, endpointVars, meterVars>>

\* on_hardware_parameter_change: the body is `pass`.
on_hardware_parameter_change(ch, parameter, value) ==
    /\ lastOp' = [NoOp EXCEPT !.op = "on_hardware_parameter_change", !.ch = ch,
                              !.param = parameter, !.req = value,
                              !.applied = KnownChannel(ch)]
    /\ UNCHANGED <<plugins, stateRef, pstate, settling, midiVars, wsVars, xairVars, endpointVars, meterVars>>

\* connect_device: the body takes the lock and returns True; loading the
\* plugin, connecting it and taking its state are a commented-out plan.
connect_device(device_type) ==
    /\ lastOp' = [NoOp EXCEPT !.op = "connect_device", !.param = device_type,
                              !.result = "True", !.overlapped = settling > 0]
    /\ UNCHANGED <<plugins, stateRef, pstate, settling, midiVars, wsVars, xairVars,
                   endpointVars, meterVars>>

\* get_connected_devices and get_channel.
get_connected_devices == Range(plugins)
get_channel(ch) == IF KnownChannel(ch) THEN <<Channels[ch]>> ELSE <<>>

StateNext ==
    \/ \E p \in PluginIds : InstallPlugin(p) /\ UNCHANGED <<midiVars, wsVars, xairVars, endpointVars, meterVars>>
    \/ \E ch \in ChannelArgs, level \in LevelArgs, stop \in 1..3 :
            set_fader(ch, level, stop)
    \/ \E ch \in ChannelArgs, muted \in BOOLEAN, stop \in 1..3 :
            set_mute(ch, muted, stop)
    \/ \E ch \in ChannelArgs, pan \in PanArgs, stop \in 1..3 :
            set_pan(ch, pan, stop)
    \/ \E ch \in ChannelArgs, stop \in 1..3 :
            \/ apply_parameter_change(ch, "fader", 381, stop)
            \/ apply_parameter_change(ch, "solo", TRUE, stop)
    \/ \E n \in {1} : recall_scene(n)
    \/ recall_scene_sync
    \/ \E d \in PluginIds : disconnect_device(d)
    \/ disconnect_all
    \/ \E ch \in ChannelArgs :
            \E v \in HardwareLevels : on_hardware_parameter_change(ch, "fader", v)

\* SpecLifecycle: devices coming and going.
DeviceTypes == {"xair", "qu24"}
LifecycleChannelArgs == {<<"input", 1>>}
LifecycleLevelArgs == {127}

LifecycleNext ==
    \/ \E t \in DeviceTypes : connect_device(t)
    \/ \E p \in PluginIds : InstallPlugin(p) /\ UNCHANGED <<midiVars, wsVars, xairVars, endpointVars, meterVars>>
    \/ \E d \in PluginIds : disconnect_device(d)
    \/ disconnect_all
    \/ \E n \in {1} : recall_scene(n)
    \/ recall_scene_sync
    \/ \E ch \in LifecycleChannelArgs, level \in LifecycleLevelArgs, stop \in 1..3 :
            set_fader(ch, level, stop)

\* SpecParam: apply_parameter_change over all its branches, with no plugin
\* or one plugin registered.
ParamNext ==
    \/ InstallPlugin("p1") /\ UNCHANGED <<midiVars, wsVars, xairVars, endpointVars, meterVars>>
    \/ \E ch \in ChannelArgs, c \in ParameterChanges, stop \in 1..3 :
            apply_parameter_change(ch, c[1], c[2], stop)

(***************************************************************************)
(* SpecXAir: ludwig.boards.xair.XAirPlugin on ludwig.plugins.base.BoardPlugin*)
(*                                                                         *)
(* One XAirPlugin, the plugin "p1" of the state manager once it is         *)
(* registered. Its _state is pstate["p1"].                                 *)
(***************************************************************************)
_FADER_CHANNEL == 0
_MUTE_CHANNEL == 1
_PAN_CHANNEL == 2
_AUX_LINE_IN_CC == 16
_FX_RETURN_CC_START == 17
_AUX_CC_START == 21
_FX_SEND_CC_START == 27
_MAIN_CC == 31

XAir == "p1"

\* int(x) of a quotient: truncation towards zero
Trunc(n, d) == IF n >= 0 THEN n \div d ELSE 0 - ((0 - n) \div d)

\* int(level * 127), level counted in 1/254
_translate_fader_to_hardware(level) == Trunc(level * 127, Unit)
\* int((pan + 1.0) * 63.5), pan counted in 1/254
_translate_pan_to_hardware(pan) == Trunc((pan + Unit) * 127, 2 * Unit)

\* BoardPlugin._channel_id_to_index on the id "<type_str>_<index>": the index
\* as it is, the type from type_map, INPUT for a type_str it does not hold.
_channel_id_to_index(channel_id) ==
    LET type_str == channel_id[1]
        type == CASE type_str \in {"input", "ch"} -> "INPUT"
                  [] type_str = "aux" -> "AUX"
                  [] type_str = "bus" -> "BUS"
                  [] type_str = "fx" -> "FX_RETURN"
                  [] type_str = "fxsend" -> "FX_SEND"
                  [] type_str = "dca" -> "DCA"
                  [] type_str = "matrix" -> "MATRIX"
                  [] type_str = "main" -> "MAIN"
                  [] OTHER -> "INPUT"
    IN  <<channel_id[2], type>>

\* XAirPlugin._get_cc_number: the CC number, or -1 for None
_get_cc_number(channel_index, channel_type) ==
    CASE channel_type = "INPUT" /\ channel_index \in 1..16 -> channel_index - 1
      [] channel_type = "INPUT" /\ channel_index = 17 -> _AUX_LINE_IN_CC
      [] channel_type = "FX_RETURN" /\ channel_index \in 1..4 ->
            _FX_RETURN_CC_START + channel_index - 1
      [] channel_type = "AUX" /\ channel_index \in 1..6 ->
            _AUX_CC_START + channel_index - 1
      [] channel_type = "FX_SEND" /\ channel_index \in 1..4 ->
            _FX_SEND_CC_START + channel_index - 1
      [] channel_type = "MAIN" -> _MAIN_CC
      [] OTHER -> 0 - 1

\* XAirPlugin._send_cc: the messages handed to the output port
_send_cc(midi_channel, cc_number, value) ==
    IF _midi_out # "None"
    THEN << <<BitOr(CONTROL_CHANGE, midi_channel), cc_number, value>> >>
    ELSE <<>>

\* _send_fader / _send_mute / _send_pan
_send(midi_channel, channel_id, value) ==
    LET it == _channel_id_to_index(channel_id)
        cc_number == _get_cc_number(it[1], it[2])
    IN  IF cc_number < 0 THEN <<>> ELSE _send_cc(midi_channel, cc_number, value)

\* What BoardPlugin.set_fader / set_mute / set_pan hand to the transport.
PluginSends(field, channel_id, value) ==
    CASE field = "fader" ->
            _send(_FADER_CHANNEL, channel_id, _translate_fader_to_hardware(value))
      [] field = "mute" ->
            _send(_MUTE_CHANNEL, channel_id, IF value THEN 127 ELSE 0)
      [] field = "pan" ->
            _send(_PAN_CHANNEL, channel_id, _translate_pan_to_hardware(value))

NoCall ==
    [op |-> "none", field |-> "", ch |-> <<"", 0>>, value |-> 0,
     outcome |-> "", was_connected |-> FALSE, result |-> "None", msgs |-> <<>>,
     status |-> "disconnected", callback |-> <<>>, send_raised |-> FALSE]

\* get_device_info().status
get_device_info_status(connected) ==
    IF connected THEN "connected" ELSE "disconnected"

\* Inputs of the plugin operations.
PluginChannelArgs ==
    {<<"input", 1>>, <<"input", 0>>, <<"input", 17>>, <<"input", 20>>,
     <<"foo", 3>>, <<"dca", 1>>, <<"main", 0>>}
FaderValues == {<<"fader", 127>>, <<"fader", 254>>}
MuteValues == {<<"mute", TRUE>>}
PanValues == {<<"pan", 0>>}
OpenOutcomes == {"opened", "output_fails", "input_fails"}

\* BoardPlugin.connect over XAirPlugin._connect_hardware: the output port is
\* opened, then the input port; a failure of either is caught there and
\* reported as False, with what was assigned before it left as it is.
connect(outcome) ==
    LET success == outcome = "opened"
    IN  /\ _midi_out' = IF outcome = "output_fails" THEN _midi_out ELSE "port"
        /\ _midi_in' = IF success THEN "port" ELSE _midi_in
        /\ _connected' = success
        /\ xlast' = [NoCall EXCEPT !.op = "connect", !.outcome = outcome,
                                   !.was_connected = _connected,
                                   !.result = IF success THEN "True" ELSE "False",
                                   !.status = get_device_info_status(success),
                                   !.callback = <<success,
                                       IF success THEN "None" ELSE "Connection failed">>]
        /\ UNCHANGED <<midiVars, stateVars, wsVars, endpointVars, meterVars>>

\* BoardPlugin.disconnect over XAirPlugin._disconnect_hardware
disconnect ==
    /\ _midi_out' = "None"
    /\ _midi_in' = "None"
    /\ _connected' = FALSE
    /\ xlast' = [NoCall EXCEPT !.op = "disconnect", !.was_connected = _connected,
                               !.callback = <<FALSE, "None">>]
    /\ UNCHANGED <<midiVars, stateVars, wsVars, endpointVars, meterVars>>

\* BoardPlugin.set_fader / set_mute / set_pan called on the plugin. `raises`:
\* the port's send_message raises; nothing between it and the caller catches
\* the exception, and the plugin's local state is written only after the send.
plugin_set(field, channel_id, value, raises) ==
    /\ raises => PluginSends(field, channel_id, value) # <<>>
    /\ pstate' = IF raises THEN pstate
                 ELSE PluginSet(pstate, XAir, channel_id, field, value)
    /\ xlast' = [NoCall EXCEPT !.op = "plugin_set", !.field = field,
                               !.ch = channel_id, !.value = value,
                               !.was_connected = _connected,
                               !.status = get_device_info_status(_connected),
                               !.send_raised = raises,
                               !.result = IF raises THEN "raised" ELSE "None",
                               !.msgs = IF raises THEN <<>>
                                        ELSE PluginSends(field, channel_id, value)]
    /\ UNCHANGED <<_connected, _midi_out, _midi_in, plugins, stateRef, settling,
                   lastOp, midiVars, wsVars, endpointVars, meterVars>>

\* StateManager.set_fader / set_mute / set_pan with the XAirPlugin as the
\* registered plugin: the clamped value is stored and handed to the plugin.
manager_set(field, channel_id, value, raises) ==
    LET v == CASE field = "fader" -> ClampFader(value)
               [] field = "pan" -> ClampPan(value)
               [] OTHER -> value
    IN  /\ plugins = <<XAir>>
        /\ raises => KnownChannel(channel_id) /\ PluginSends(field, channel_id, v) # <<>>
        /\ IF ~KnownChannel(channel_id)
           THEN /\ xlast' = [NoCall EXCEPT !.op = "manager_set", !.field = field,
                                   !.ch = channel_id, !.value = value,
                                   !.was_connected = _connected,
                                   !.result = "not applied",
                                   !.status = get_device_info_status(_connected)]
                /\ UNCHANGED pstate
           ELSE /\ pstate' =
                        LET stored == [pstate EXCEPT
                                          ![stateRef].channels[channel_id][field] = v]
                        IN  IF raises THEN stored
                            ELSE PluginSet(stored, XAir, channel_id, field, v)
                /\ xlast' = [NoCall EXCEPT !.op = "manager_set", !.field = field,
                                   !.ch = channel_id, !.value = v,
                                   !.was_connected = _connected,
                                   !.status = get_device_info_status(_connected),
                                   !.send_raised = raises,
                                   !.result = IF raises THEN "raised" ELSE "None",
                                   !.msgs = IF raises THEN <<>>
                                            ELSE PluginSends(field, channel_id, v)]
        /\ UNCHANGED <<_connected, _midi_out, _midi_in, plugins, stateRef, settling,
                       lastOp, midiVars, wsVars, endpointVars, meterVars>>

\* The operations of the capability contract that XAir over MIDI does not
\* support, called on the plugin object as StateManager calls its plugins.
\* XAirPlugin defines set_send_level with an empty body; BoardPlugin and
\* XAirPlugin define none of the others, so the attribute lookup raises
\* AttributeError.
UnsupportedOps ==
    {"set_send_level", "set_solo", "recall_scene", "start_meters", "set_channel_name"}
plugin_unsupported(name) ==
    /\ xlast' = [NoCall EXCEPT !.op = "unsupported", !.field = name,
                               !.was_connected = _connected,
                               !.status = get_device_info_status(_connected),
                               !.result = IF name = "set_send_level" THEN "None"
                                          ELSE "raised"]
    /\ UNCHANGED <<_connected, _midi_out, _midi_in, midiVars, stateVars, wsVars,
                   endpointVars, meterVars>>

XAirNext ==
    \/ InstallPlugin(XAir) /\ UNCHANGED <<midiVars, wsVars, xairVars, endpointVars, meterVars>>
    \/ \E outcome \in OpenOutcomes : connect(outcome)
    \/ disconnect
    \/ \E ch \in PluginChannelArgs, fv \in FaderValues \cup MuteValues \cup PanValues,
          raises \in BOOLEAN :
            plugin_set(fv[1], ch, fv[2], raises)
    \/ \E ch \in ChannelArgs, fv \in FaderValues \cup MuteValues \cup PanValues,
          raises \in BOOLEAN :
            manager_set(fv[1], ch, fv[2], raises)
    \/ \E name \in UnsupportedOps : plugin_unsupported(name)
    \/ \E n \in {1} : recall_scene(n)

(***************************************************************************)
(* SpecWs: ludwig.server.websocket.ConnectionManager and its callers       *)
(*                                                                         *)
(* A broadcast is a coroutine that walks self._connections by position and *)
(* awaits send_json for every connection it does not skip. Between two     *)
(* awaits it runs alone; while it is suspended in one, other coroutines    *)
(* (endpoints connecting, disconnecting, subscribing, other broadcasts)    *)
(* run.                                                                    *)
(***************************************************************************)
Observers == {1, 2, 3}
WsChannels == {"input_1", "input_2"}
SubscribeArgs == {{"input_1"}}
BatchArgs == {{"input_2"}, {"input_1", "input_2"}}

NoSubscription == [present |-> FALSE, chans |-> {}]

NoBroadcast ==
    [kind |-> "none", exclude |-> 0, echoed |-> FALSE, failed |-> FALSE,
     missed |-> FALSE, missedFiltered |-> FALSE, leaked |-> FALSE, pruned |-> TRUE,
     twice |-> FALSE, stale |-> FALSE]

\* self._subscriptions.get(connection, set())
SubsOf(subs, o) == IF subs[o].present THEN subs[o].chans ELSE {}

\* The test that makes a loop skip a connection: `connection == exclude` in
\* broadcast and broadcast_parameter_change, the subscription filter in
\* broadcast_parameter_change alone, nothing in broadcast_meters.
Skips(t, subs, o) ==
    \/ t.kind # "meters" /\ o = t.exclude
    \/ /\ t.kind = "parameter"
       /\ SubsOf(subs, o) # {}
       /\ t.chs \cap SubsOf(subs, o) = {}

\* An observer with a non-empty subscription set that lacks a channel the
\* message carries a change for.
NotSubscribed(t, subs, o) ==
    /\ t.kind \in {"parameter", "batch"}
    /\ SubsOf(subs, o) # {}
    /\ ~(t.chs \subseteq SubsOf(subs, o))

\* The loop from position t.i on, up to the next send_json: waiting is the
\* connection that send is for, 0 when the loop has run off the list.
RECURSIVE Advance(_, _, _)
Advance(t, conns, subs) ==
    IF t.i >= Len(conns) THEN [t EXCEPT !.waiting = 0]
    ELSE LET o == conns[t.i + 1]
         IN  IF Skips(t, subs, o)
             THEN Advance([t EXCEPT !.i = t.i + 1], conns, subs)
             ELSE [t EXCEPT !.i = t.i + 1, !.waiting = o,
                            !.leak = NotSubscribed(t, subs, o)]

\* ConnectionManager.disconnect
RemoveConnection(conns, o) == SelectSeq(conns, LAMBDA q : q # o)
RemoveSubscription(subs, o) == [subs EXCEPT ![o] = NoSubscription]

RECURSIVE RemoveAllConnections(_, _)
RemoveAllConnections(conns, dead) ==
    IF dead = <<>> THEN conns
    ELSE RemoveAllConnections(RemoveConnection(conns, Head(dead)), Tail(dead))

RECURSIVE RemoveAllSubscriptions(_, _)
RemoveAllSubscriptions(subs, dead) ==
    IF dead = <<>> THEN subs
    ELSE RemoveAllSubscriptions(RemoveSubscription(subs, Head(dead)), Tail(dead))

\* History kept with every broadcast: the observers that were registered when
\* it started and whose registration and subscriptions nobody has touched
\* since.
Unsettle(ts, gone) ==
    [k \in 1..Len(ts) |-> [ts[k] EXCEPT !.stable = @ \ gone]]

Busy(o) == \E k \in 1..Len(tasks) : tasks[k].exclude = o
Referenced(o) ==
    \E k \in 1..Len(tasks) :
        o = tasks[k].waiting \/ o \in Range(tasks[k].disconnected)

\* The result of a broadcast whose loop has ended: the cleanup loop
\* (self.disconnect for every connection that failed) and the history record.
Finish(t, k) ==
    LET dead == t.disconnected
        conns == RemoveAllConnections(connections, dead)
        subs == RemoveAllSubscriptions(subscriptions, dead)
        owed == {o \in t.stable \ Range(dead) : ~Skips(t, subscriptions, o)}
    IN  /\ connections' = conns
        /\ subscriptions' = subs
        /\ tasks' = Unsettle(SelectSeq(tasks, LAMBDA u : u # tasks[k]), Range(dead))
        /\ lastDone' = [kind |-> t.kind, exclude |-> t.exclude,
                        echoed |-> t.exclude \in t.got, failed |-> dead # <<>>,
                        missed |-> owed \ t.got # {},
                        missedFiltered |-> \E o \in owed \ t.got :
                                               SubsOf(subscriptions, o) # {},
                        leaked |-> t.leaked, twice |-> t.twice, stale |-> t.stale,
                        pruned |-> \A o \in Range(dead) :
                                       o \notin Range(conns) /\ ~subs[o].present]

\* The start of a broadcast, up to its first send_json. msg: the channel,
\* parameter and value a "parameter" message carries, <<>> where the model
\* does not follow them.
BeginBroadcast(kind, chs, exclude, msg) ==
    /\ Len(tasks) < MaxBroadcasts
    /\ LET t == Advance([kind |-> kind, chs |-> chs, exclude |-> exclude, i |-> 0,
                         waiting |-> 0, leak |-> FALSE, disconnected |-> <<>>,
                         got |-> {}, leaked |-> FALSE, twice |-> FALSE,
                         msg |-> msg, stale |-> FALSE,
                         stable |-> Range(connections)],
                        connections, subscriptions)
       IN  IF t.waiting = 0
           THEN /\ lastDone' = [NoBroadcast EXCEPT !.kind = kind, !.exclude = exclude,
                                                   !.missed = FALSE]
                /\ UNCHANGED <<connections, subscriptions, tasks>>
           ELSE /\ tasks' = Append(tasks, t)
                /\ lastDone' = NoBroadcast
                /\ UNCHANGED <<connections, subscriptions>>

StartBroadcast(kind, chs, exclude) ==
    /\ BeginBroadcast(kind, chs, exclude, <<>>)
    /\ UNCHANGED <<open, midiVars, stateVars, xairVars, endpointVars, meterVars>>

\* websocket_endpoint up to its loop: ConnectionManager.connect. Every
\* connection is a new WebSocket object: it takes the first name that nothing
\* refers to any more.
Fresh(o) == o \notin open /\ o \notin Range(connections) /\ ~Referenced(o)

ws_connect(o) ==
    /\ Fresh(o) /\ \A q \in Observers : Fresh(q) => o <= q
    /\ open' = open \cup {o}
    /\ connections' = Append(connections, o)
    /\ subscriptions' = [subscriptions EXCEPT ![o] = [present |-> TRUE, chans |-> {}]]
    /\ UNCHANGED <<tasks, lastDone, midiVars, stateVars, xairVars, endpointVars, meterVars>>

\* websocket_endpoint on WebSocketDisconnect: ConnectionManager.disconnect.
ws_disconnect(o) ==
    /\ o \in open /\ ~Busy(o)
    /\ open' = open \ {o}
    /\ connections' = RemoveConnection(connections, o)
    /\ subscriptions' = RemoveSubscription(subscriptions, o)
    /\ tasks' = Unsettle(tasks, {o})
    /\ UNCHANGED <<lastDone, midiVars, stateVars, xairVars, endpointVars, meterVars>>

\* handle_websocket_message, type "subscribe": set_subscriptions.
set_subscriptions(o, channels) ==
    /\ o \in open /\ ~Busy(o)
    /\ subscriptions' = [subscriptions EXCEPT ![o] = [present |-> TRUE, chans |-> channels]]
    /\ tasks' = Unsettle(tasks, {o})
    /\ UNCHANGED <<connections, open, lastDone, midiVars, stateVars, xairVars, endpointVars, meterVars>>

\* handle_websocket_message, types fader / mute / pan / parameter: the
\* change is broadcast with exclude = the sender's websocket.
ws_parameter(o, channel_id) ==
    /\ o \in open /\ ~Busy(o)
    /\ StartBroadcast("parameter", {channel_id}, o)

\* The REST endpoints set_fader / set_mute / set_pan: no exclude.
rest_parameter(channel_id) == StartBroadcast("parameter", {channel_id}, 0)

\* The REST endpoint set_parameters: broadcast_batch_changes.
rest_batch(channel_ids) == StartBroadcast("batch", channel_ids, 0)

\* meter_broadcast_loop: broadcast_meters.
broadcast_meters == StartBroadcast("meters", {}, 0)

\* The REST endpoint recall_scene: broadcast_state_update.
broadcast_state_update == StartBroadcast("state", {}, 0)

\* A delivered "parameter" message that canonical state does not hold: the
\* channel is not there, or its field has another value.
Stale(msg) ==
    /\ msg # <<>>
    /\ ~(KnownChannel(msg[1]) /\ Channels[msg[1]][msg[2]] = msg[3])

\* A send_json returns (ok) or raises; the loop then goes on to its next
\* send_json or ends. A send to a websocket that has disconnected raises.
SendJsonReturns(k, ok) ==
    /\ k \in 1..Len(tasks)
    /\ tasks[k].waiting \notin open => ~ok
    /\ LET t == tasks[k]
           sent == IF ok
                   THEN [t EXCEPT !.got = @ \cup {t.waiting},
                                  !.leaked = @ \/ t.leak,
                                  !.twice = @ \/ t.waiting \in t.got \cap t.stable,
                                  !.stale = @ \/ Stale(t.msg)]
                   ELSE [t EXCEPT !.disconnected = Append(@, t.waiting)]
           next == Advance(sent, connections, subscriptions)
       IN  IF next.waiting = 0
           THEN Finish(next, k)
           ELSE /\ tasks' = [tasks EXCEPT ![k] = next]
                /\ UNCHANGED <<connections, subscriptions, lastDone>>

send_json(k, ok) ==
    /\ SendJsonReturns(k, ok)
    /\ UNCHANGED <<open, midiVars, stateVars, xairVars, endpointVars, meterVars>>

\* The REST endpoint set_fader: state.set_fader, which has no await inside,
\* then broadcast_parameter_change with the level of the request, up to its
\* first send_json.
rest_set_fader(channel_id, level) ==
    /\ StateManager_set_fader("set_fader", channel_id, level, Len(plugins) + 1)
    /\ BeginBroadcast("parameter", {channel_id}, 0, <<channel_id, "fader", level>>)
    /\ UNCHANGED <<open, midiVars, xairVars, endpointVars, meterVars>>

\* handle_websocket_message, type "fader": the same with exclude = the
\* sender's websocket.
ws_set_fader(o, channel_id, value) ==
    /\ o \in open /\ ~Busy(o)
    /\ StateManager_set_fader("set_fader", channel_id, value, Len(plugins) + 1)
    /\ BeginBroadcast("parameter", {channel_id}, o, <<channel_id, "fader", value>>)
    /\ UNCHANGED <<open, midiVars, xairVars, endpointVars, meterVars>>

WsNext ==
    \/ \E o \in Observers : ws_connect(o)
    \/ \E o \in Observers : ws_disconnect(o)
    \/ \E o \in Observers, channels \in SubscribeArgs : set_subscriptions(o, channels)
    \/ \E o \in Observers, ch \in WsChannels : ws_parameter(o, ch)
    \/ \E ch \in WsChannels : rest_parameter(ch)
    \/ \E chs \in BatchArgs : rest_batch(chs)
    \/ broadcast_meters
    \/ broadcast_state_update
    \/ \E k \in 1..MaxBroadcasts, ok \in BOOLEAN : send_json(k, ok)

\* SpecRequest: change requests over REST and WebSocket, from the request to
\* the delivery of its broadcast.
RequestNext ==
    \/ InstallPlugin("p1") /\ UNCHANGED <<midiVars, wsVars, xairVars, endpointVars, meterVars>>
    \/ \E o \in Observers : ws_connect(o)
    \/ \E o \in Observers : ws_disconnect(o)
    \/ \E ch \in ChannelArgs, level \in LevelArgs : rest_set_fader(ch, level)
    \/ \E o \in Observers, ch \in ChannelArgs, level \in LevelArgs :
            ws_set_fader(o, ch, level)
    \/ \E k \in 1..MaxBroadcasts, ok \in BOOLEAN : send_json(k, ok)

(***************************************************************************)
(* SpecEndpoint: websocket_endpoint, one coroutine per observer            *)
(***************************************************************************)
MaxInbox == 2

\* The observers that open a websocket under SpecEndpoint.
EndpointObservers == {1, 2}

\* A JSON message of the endpoint: {"type": "state", "data": ...} or
\* {"type": "pong"} (data is then the empty state).
Message(type, data) == [type |-> type, data |-> data]
NoMessage == Message("None", NoMixerState)

\* StateManager.get_state and MixerState.model_dump.
get_state == IF HasState THEN pstate[stateRef] ELSE NoMixerState

\* websocket_endpoint from its start to its first await after ws.connect
\* has returned: ConnectionManager.connect registers the websocket, then
\* `initial_state = state.get_state()` and, `if initial_state`, the dump is
\* taken and send_json awaited; with no state the coroutine goes straight to
\* receive_json.
endpoint_connect(o) ==
    /\ pc[o] = "new" /\ \A q \in EndpointObservers : pc[q] = "new" => o <= q
    /\ open' = open \cup {o}
    /\ connections' = Append(connections, o)
    /\ subscriptions' = [subscriptions EXCEPT ![o] = [present |-> TRUE, chans |-> {}]]
    /\ atConnect' = [atConnect EXCEPT ![o] = get_state]
    /\ IF HasState
       THEN /\ sending' = [sending EXCEPT ![o] = Message("state", get_state)]
            /\ pc' = [pc EXCEPT ![o] = "send_state"]
       ELSE /\ pc' = [pc EXCEPT ![o] = "receive"]
            /\ UNCHANGED sending
    /\ UNCHANGED <<inbox, tasks, lastDone, midiVars, stateVars, xairVars, meterVars>>

\* `except WebSocketDisconnect: ws.disconnect(websocket)`.
endpoint_closed(o) ==
    /\ open' = open \ {o}
    /\ connections' = RemoveConnection(connections, o)
    /\ subscriptions' = RemoveSubscription(subscriptions, o)
    /\ sending' = [sending EXCEPT ![o] = NoMessage]
    /\ pc' = [pc EXCEPT ![o] = "closed"]

\* The awaited websocket.send_json (of the snapshot, or of a pong) returns,
\* or raises WebSocketDisconnect.
endpoint_send_json(o, ok) ==
    /\ pc[o] \in {"send_state", "send_pong"}
    /\ IF ok
       THEN /\ inbox' = [inbox EXCEPT ![o] = Append(@, sending[o])]
            /\ sending' = [sending EXCEPT ![o] = NoMessage]
            /\ pc' = [pc EXCEPT ![o] = "receive"]
            /\ UNCHANGED <<open, connections, subscriptions>>
       ELSE endpoint_closed(o) /\ UNCHANGED inbox
    /\ UNCHANGED <<atConnect, tasks, lastDone, midiVars, stateVars, xairVars, meterVars>>

\* receive_json returns {"type": "ping"}: handle_websocket_message awaits
\* send_json({"type": "pong"}).
endpoint_ping(o) ==
    /\ pc[o] = "receive" /\ Len(inbox[o]) < MaxInbox
    /\ sending' = [sending EXCEPT ![o] = Message("pong", NoMixerState)]
    /\ pc' = [pc EXCEPT ![o] = "send_pong"]
    /\ UNCHANGED <<inbox, atConnect, wsVars, midiVars, stateVars, xairVars, meterVars>>

\* receive_json returns {"type": "subscribe", "channels": [...]}:
\* handle_websocket_message calls ws.set_subscriptions.
endpoint_subscribe(o, channels) ==
    /\ pc[o] = "receive"
    /\ subscriptions' = [subscriptions EXCEPT ![o] = [present |-> TRUE, chans |-> channels]]
    /\ UNCHANGED <<connections, open, tasks, lastDone, endpointVars,
                   midiVars, stateVars, xairVars, meterVars>>

\* receive_json raises WebSocketDisconnect.
endpoint_disconnect(o) ==
    /\ pc[o] = "receive"
    /\ endpoint_closed(o)
    /\ UNCHANGED <<inbox, atConnect, tasks, lastDone, midiVars, stateVars, xairVars, meterVars>>

EndpointNext ==
    \/ InstallPlugin("p1") /\ UNCHANGED <<midiVars, wsVars, xairVars, endpointVars, meterVars>>
    \/ \E ch \in ChannelArgs, level \in LevelArgs, stop \in 1..3 :
            set_fader(ch, level, stop)
    \/ disconnect_all
    \/ \E o \in EndpointObservers : endpoint_connect(o)
    \/ \E o \in EndpointObservers, ok \in BOOLEAN : endpoint_send_json(o, ok)
    \/ \E o \in EndpointObservers : endpoint_ping(o)
    \/ \E o \in EndpointObservers, channels \in SubscribeArgs : endpoint_subscribe(o, channels)
    \/ \E o \in EndpointObservers : endpoint_disconnect(o)

(***************************************************************************)
(* SpecSnapshot: an endpoint connecting while broadcasts are in progress.  *)
(*                                                                         *)
(* `await ws.connect(websocket)` suspends in websocket.accept(); when that *)
(* returns, the endpoint runs without another await through the            *)
(* registration, get_state() and the call of send_json for the snapshot.   *)
(* A websocket transmits the messages handed to send_json in call order.   *)
(***************************************************************************)
\* A variant of connect that registers the websocket before awaiting accept().
connect_registers_first(step) == step = "open"

\* ConnectionManager.connect: the step of the endpoint at which the websocket
\* is appended to self._connections: after accept() has returned.
connect_registers(step) == step = "accepted"

Register(o, step) ==
    IF connect_registers(step)
    THEN /\ connections' = Append(connections, o)
         /\ subscriptions' = [subscriptions EXCEPT ![o] = [present |-> TRUE, chans |-> {}]]
    ELSE UNCHANGED <<connections, subscriptions>>

\* websocket_endpoint up to `await websocket.accept()` inside ws.connect.
snapshot_open(o) ==
    /\ pc[o] = "new" /\ \A q \in EndpointObservers : pc[q] = "new" => o <= q
    /\ open' = open \cup {o}
    /\ pc' = [pc EXCEPT ![o] = "accepting"]
    /\ Register(o, "open")
    /\ UNCHANGED <<sending, inbox, atConnect, tasks, lastDone, midiVars, stateVars,
                   xairVars, meterVars>>

\* accept() returns: the registration, `initial_state = state.get_state()`
\* and, `if initial_state`, the call of send_json for the snapshot.
snapshot_accepted(o) ==
    /\ pc[o] = "accepting"
    /\ Register(o, "accepted")
    /\ atConnect' = [atConnect EXCEPT ![o] = get_state]
    /\ IF HasState
       THEN /\ sending' = [sending EXCEPT ![o] = Message("state", get_state)]
            /\ pc' = [pc EXCEPT ![o] = "send_state"]
       ELSE /\ pc' = [pc EXCEPT ![o] = "receive"]
            /\ UNCHANGED sending
    /\ UNCHANGED <<open, inbox, tasks, lastDone, midiVars, stateVars, xairVars, meterVars>>

\* A broadcast's send_json returns or raises. The message reaches the
\* observer after the snapshot when the snapshot's send_json was called
\* before it and has not returned yet.
broadcast_send_json(k, ok) ==
    /\ SendJsonReturns(k, ok)
    /\ ok => pc[tasks[k].waiting] # "send_state"
    /\ inbox' = IF ok
                THEN [inbox EXCEPT ![tasks[k].waiting] =
                            Append(@, Message(tasks[k].kind, NoMixerState))]
                ELSE inbox
    /\ UNCHANGED <<open, pc, sending, atConnect, midiVars, stateVars, xairVars, meterVars>>

\* The broadcasts that run beside the endpoints: a parameter change from a
\* REST request and the meter loop's broadcast_meters.
snapshot_broadcast(kind) ==
    /\ \A o \in EndpointObservers : Len(inbox[o]) < MaxInbox
    /\ StartBroadcast(kind, IF kind = "parameter" THEN {"input_1"} ELSE {}, 0)

SnapshotNext ==
    \/ InstallPlugin("p1") /\ UNCHANGED <<midiVars, wsVars, xairVars, endpointVars, meterVars>>
    \/ \E o \in EndpointObservers : snapshot_open(o)
    \/ \E o \in EndpointObservers : snapshot_accepted(o)
    \/ \E o \in EndpointObservers, ok \in BOOLEAN : endpoint_send_json(o, ok)
    \/ \E o \in EndpointObservers : endpoint_disconnect(o)
    \/ \E kind \in {"parameter", "batch", "meters"} : snapshot_broadcast(kind)
    \/ \E k \in 1..MaxBroadcasts, ok \in BOOLEAN : broadcast_send_json(k, ok)

(***************************************************************************)
(* SpecMeter: meter_broadcast_loop and the lifespan that cancels it        *)
(***************************************************************************)
\* asyncio.CancelledError derives from BaseException: an `except Exception`
\* does not catch it.
IsException_every(exc) == TRUE
IsException(exc) == exc # "CancelledError"

\* meter_broadcast_loop, `except Exception`: print, then the loop is
\* suspended in `await asyncio.sleep(1)`.
AfterError_break == "done"
AfterError == "backoff"

SendOutcomes == {"ok", "Exception"}

\* History of the meter task's last step: what it was (iterate, send,
\* cancelled), the await it left, whether the step raised, a bit that flips
\* with every iteration, and whether a meter message has ever been delivered
\* after the cancel.
NoMeterStep == [step |-> "none", at |-> "created", raised |-> FALSE, n |-> 0, late |-> FALSE]

\* StateManager.on_hardware_meter_update.
on_hardware_meter_update ==
    /\ _meters' = TRUE
    /\ UNCHANGED <<meter_pc, meter_to, meter_i, meter_disconnected, cancel_pending,
                   cancel_requested, mlast, midiVars, stateVars, wsVars, xairVars,
                   endpointVars>>

\* broadcast_meters with its for-loop about to take index i: the next
\* send_json, or, past the end of the list, the removal of the disconnected
\* and the return to the loop's `await asyncio.sleep(interval)`.
BroadcastFrom(i, disc) ==
    IF i <= Len(connections)
    THEN /\ meter_pc' = "send"
         /\ meter_to' = connections[i]
         /\ meter_i' = i + 1
         /\ meter_disconnected' = disc
         /\ UNCHANGED <<connections, subscriptions>>
    ELSE /\ meter_pc' = "sleep"
         /\ meter_to' = 0
         /\ meter_i' = 0
         /\ meter_disconnected' = <<>>
         /\ connections' = RemoveAllConnections(connections, disc)
         /\ subscriptions' = RemoveAllSubscriptions(subscriptions, disc)

\* The task is resumed with no cancellation due (its first run, or the end
\* of a sleep): one pass of the while body up to its first await. `raises`:
\* get_meters or the start of broadcast_meters raises an Exception.
meter_iterate(raises) ==
    /\ meter_pc \in {"created", "sleep", "backoff"} /\ ~cancel_pending
    /\ IF raises
       THEN /\ meter_pc' = AfterError
            /\ UNCHANGED <<meter_to, meter_i, meter_disconnected, connections, subscriptions>>
       ELSE IF ~_meters
       THEN /\ meter_pc' = "sleep"
            /\ UNCHANGED <<meter_to, meter_i, meter_disconnected, connections, subscriptions>>
       ELSE BroadcastFrom(1, <<>>)
    /\ mlast' = [mlast EXCEPT !.step = "iterate", !.at = meter_pc, !.raised = raises,
                              !.n = 1 - @]
    /\ UNCHANGED <<cancel_pending, cancel_requested, _meters, open, tasks, lastDone,
                   midiVars, stateVars, xairVars, endpointVars>>

\* The awaited connection.send_json returns or raises an Exception (it
\* raises when the websocket has been closed); broadcast_meters goes on.
meter_send_json(outcome) ==
    /\ meter_pc = "send" /\ ~cancel_pending
    /\ meter_to \notin open => outcome # "ok"
    /\ BroadcastFrom(meter_i, IF outcome = "ok" THEN meter_disconnected
                              ELSE Append(meter_disconnected, meter_to))
    /\ mlast' = [mlast EXCEPT !.step = "send", !.at = "send", !.raised = outcome # "ok",
                              !.late = @ \/ (outcome = "ok" /\ cancel_requested)]
    /\ UNCHANGED <<cancel_pending, cancel_requested, _meters, open, tasks, lastDone,
                   midiVars, stateVars, xairVars, endpointVars>>

\* The CancelledError is raised at the await the task is suspended in. In
\* the sleep, `except asyncio.CancelledError: break`. In the back-off sleep
\* it is raised inside the except clause and leaves the coroutine. In
\* send_json it passes broadcast_meters' `except Exception` if that does not
\* catch it (else broadcast_meters takes the connection as failed and goes
\* on) and reaches the loop's `except asyncio.CancelledError`. A task that
\* has not run yet never starts.
meter_cancelled_error ==
    /\ cancel_pending /\ meter_pc # "done"
    /\ cancel_pending' = FALSE
    /\ IF meter_pc = "send" /\ IsException("CancelledError")
       THEN BroadcastFrom(meter_i, Append(meter_disconnected, meter_to))
       ELSE /\ meter_pc' = "done"
            /\ meter_to' = 0
            /\ meter_i' = 0
            /\ meter_disconnected' = <<>>
            /\ UNCHANGED <<connections, subscriptions>>
    /\ mlast' = [mlast EXCEPT !.step = "cancelled", !.at = meter_pc, !.raised = TRUE]
    /\ UNCHANGED <<cancel_requested, _meters, open, tasks, lastDone,
                   midiVars, stateVars, xairVars, endpointVars>>

\* lifespan after its yield: meter_task.cancel(), then disconnect_all().
lifespan_shutdown ==
    /\ ~cancel_requested
    /\ cancel_requested' = TRUE
    /\ cancel_pending' = (meter_pc # "done")
    /\ plugins' = <<>>
    /\ stateRef' = "None"
    /\ lastOp' = [NoOp EXCEPT !.op = "disconnect_all", !.applied = TRUE,
                              !.targets = plugins, !.got = Range(plugins),
                              !.disconnects = plugins,
                              !.overlapped = settling > 0]
    /\ UNCHANGED <<pstate, settling, meter_pc, meter_to, meter_i, meter_disconnected,
                   _meters, mlast, midiVars, wsVars, xairVars, endpointVars>>

\* Parameter traffic of the meter specification.
MeterChannelArgs == {<<"input", 1>>}
MeterLevelArgs == {127}

MeterNext ==
    \/ \E raises \in BOOLEAN : meter_iterate(raises)
    \/ \E outcome \in SendOutcomes : meter_send_json(outcome)
    \/ meter_cancelled_error
    \/ lifespan_shutdown
    \/ on_hardware_meter_update
    \/ \E o \in Observers :
            /\ o # meter_to /\ o \notin Range(meter_disconnected)
            /\ ws_connect(o)
    \/ \E o \in Observers : ws_disconnect(o)
    \/ InstallPlugin("p1") /\ UNCHANGED <<midiVars, wsVars, xairVars, endpointVars, meterVars>>
    \/ \E ch \in MeterChannelArgs, level \in MeterLevelArgs, stop \in 1..2 :
            set_fader(ch, level, stop)

(***************************************************************************)
(* SpecMidi: boards on a pluggy PluginManager                              *)
(***************************************************************************)
Devices == {"Qu24", "Command8"}
Threads == {"caller", "input"}

\* One send: the device whose transport gets it, the bytes, and history
\* fields (op: the hook call it belongs to, origin: the thread that runs it,
\* k: its place 1..4 in an NRPN sequence, 0 outside one).
Send(dev, msg, k) == [dev |-> dev, msg |-> msg, k |-> k]

\* Midi.nrpn: four Control-Change messages, one send each.
nrpn_swapped(hdrChannel, channel, param, data1, data2) ==
    LET header == BitOr(CONTROL_CHANGE, hdrChannel)
    IN  << Send("Qu24", <<header, 98, param>>, 1),
           Send("Qu24", <<header, 99, channel>>, 2),
           Send("Qu24", <<header, 6, data1>>, 3),
           Send("Qu24", <<header, 38, data2>>, 4) >>

nrpn(hdrChannel, channel, param, data1, data2) ==
    LET header == BitOr(CONTROL_CHANGE, hdrChannel)
    IN  << Send("Qu24", <<header, 99, channel>>, 1),
           Send("Qu24", <<header, 98, param>>, 2),
           Send("Qu24", <<header, 6, data1>>, 3),
           Send("Qu24", <<header, 38, data2>>, 4) >>

\* Qu24's hook implementations.
Qu24_fader(hdrChannel, channel, volume) == nrpn(hdrChannel, channel, 23, volume, 7)
Qu24_pan(hdrChannel, channel, pan) == nrpn(hdrChannel, channel, 22, pan, 7)
Qu24_mute(hdrChannel, channel) ==
    << Send("Qu24", <<BitOr(NOTE_ON, hdrChannel), channel, 127>>, 0) >>
Qu24_unmute(hdrChannel, channel) ==
    << Send("Qu24", <<BitOr(NOTE_ON, hdrChannel), channel, 1>>, 0) >>

\* Command8's hook implementations.
Command8_fader(channel, volume) ==
    << Send("Command8", <<BitOr(CONTROL_CHANGE, channel), 7, volume>>, 0) >>
Command8_pan(channel, pan) ==
    << Send("Command8", <<BitOr(CONTROL_CHANGE, channel), 10, pan>>, 0) >>
Command8_mute(channel) ==
    << Send("Command8", <<BitOr(CONTROL_CHANGE, channel), 14, 127>>, 0) >>
Command8_unmute(channel) ==
    << Send("Command8", <<BitOr(CONTROL_CHANGE, channel), 14, 0>>, 0) >>

HookNames == {"fader", "pan", "mute", "unmute"}

\* pm.hook.<name>(...): pluggy calls the implementation of every registered
\* plugin, one after the other, in the calling thread.
HookCall(hdrChannel, name, channel, value) ==
    CASE name = "fader" ->
            Command8_fader(channel, value) \o Qu24_fader(hdrChannel, channel, value)
      [] name = "pan" ->
            Command8_pan(channel, value) \o Qu24_pan(hdrChannel, channel, value)
      [] name = "mute" ->
            Command8_mute(channel) \o Qu24_mute(hdrChannel, channel)
      [] OTHER ->
            Command8_unmute(channel) \o Qu24_unmute(hdrChannel, channel)

Tagged(sends, op, origin) ==
    [i \in 1..Len(sends) |->
        [dev |-> sends[i].dev, msg |-> sends[i].msg, k |-> sends[i].k,
         op |-> op, origin |-> origin]]

\* Command8.__call__: the rtmidi input callback. Yields the hook call the
\* message is forwarded as, "none" when it is ignored, "raise" when indexing
\* the message raises IndexError.
Command8_call(message) ==
    IF Len(message) < 1 THEN [kind |-> "raise"]
    ELSE IF BitAnd(message[1], 240) # CONTROL_CHANGE THEN [kind |-> "none"]
    ELSE IF Len(message) < 2 THEN [kind |-> "raise"]
    ELSE IF message[2] = 7 THEN
        IF Len(message) < 3 THEN [kind |-> "raise"]
        ELSE [kind |-> "hook", name |-> "fader",
              channel |-> BitAnd(message[1], 15), value |-> message[3]]
    ELSE IF message[2] = 10 THEN
        IF Len(message) < 3 THEN [kind |-> "raise"]
        ELSE [kind |-> "hook", name |-> "pan",
              channel |-> BitAnd(message[1], 15), value |-> message[3]]
    ELSE IF message[2] = 14 THEN
        IF Len(message) < 3 THEN [kind |-> "raise"]
        ELSE [kind |-> "hook", name |-> IF message[3] # 0 THEN "mute" ELSE "unmute",
              channel |-> BitAnd(message[1], 15), value |-> message[3]]
    ELSE [kind |-> "none"]

\* Inputs of the hook calls and of the inbound callback.
CallChannels == {5}
CallValues == {0, 100}
InboundMessages ==
    { <<>>, <<176, 7>>, <<176, 7, 100>>, <<181, 10, 64>>,
      <<176, 14, 127>>, <<177, 14, 0>>, <<144, 5, 127>> }

\* The caller thread (REPL or CLI) invokes pm.hook.<name>.
CallerHook(name, channel, value) ==
    /\ todo["caller"] = <<>>
    /\ Len(opLog) < MaxOps
    /\ name \in {"mute", "unmute"} => value = 0
    /\ opLog' = Append(opLog, [origin |-> "caller", kind |-> "hook", name |-> name,
                               channel |-> channel, value |-> value])
    /\ todo' = [todo EXCEPT !["caller"] =
                    Tagged(HookCall(midiChannel, name, channel, value),
                           Len(opLog) + 1, "caller")]
    /\ UNCHANGED <<midiChannel, wire, stateVars, wsVars, xairVars, endpointVars, meterVars>>

\* rtmidi delivers a message from the Command8 to Command8.__call__ on its
\* input thread.
MidiIn(message) ==
    /\ todo["input"] = <<>>
    /\ Len(opLog) < MaxOps
    /\ LET r == Command8_call(message)
       IN  /\ opLog' = Append(opLog,
                   IF r.kind = "hook"
                   THEN [origin |-> "inbound", kind |-> "hook", name |-> r.name,
                         channel |-> r.channel, value |-> r.value]
                   ELSE [origin |-> "inbound", kind |-> r.kind, name |-> "",
                         channel |-> 0, value |-> 0])
           /\ todo' = [todo EXCEPT !["input"] =
                   IF r.kind = "hook"
                   THEN Tagged(HookCall(midiChannel, r.name, r.channel, r.value),
                               Len(opLog) + 1, "inbound")
                   ELSE <<>>]
    /\ UNCHANGED <<midiChannel, wire, stateVars, wsVars, xairVars, endpointVars, meterVars>>

\* Midi.send: one message handed to the transport of its device.
send(t) ==
    /\ todo[t] # <<>>
    /\ LET s == Head(todo[t])
       IN  wire' = [wire EXCEPT ![s.dev] =
                        Append(@, [msg |-> s.msg, k |-> s.k, op |-> s.op,
                                   origin |-> s.origin])]
    /\ todo' = [todo EXCEPT ![t] = Tail(@)]
    /\ UNCHANGED <<midiChannel, opLog, stateVars, wsVars, xairVars, endpointVars, meterVars>>

MidiNext ==
    \/ \E name \in HookNames, channel \in CallChannels, value \in CallValues :
            CallerHook(name, channel, value)
    \/ \E message \in InboundMessages : MidiIn(message)
    \/ \E t \in Threads : send(t)

(***************************************************************************)
(* SpecCC: the Control-Change builders of the pluggy boards, called with   *)
(* operands inside and outside their annotated domains                     *)
(***************************************************************************)
\* Gld.scene_recall: one message of four bytes.
Gld_scene_recall(hdrChannel, scene) ==
    << Send("Gld", <<BitOr(CONTROL_CHANGE, hdrChannel), 0, scene \div 128, scene % 128>>, 0) >>

\* The bytes of the messages a hook implementation hands to Midi.send.
Messages(sends) == [i \in 1..Len(sends) |-> sends[i].msg]

\* Operands of the builder calls: the ends of the annotated domains (uint4,
\* uint7, scenes 1..500) and values beyond them.
BuilderChannels == {0, 15, 16, 64}
BuilderValues == {0, 127, 128, 300}
BuilderScenes == {1, 128, 500, 501}
GldChannels == {0, 3}

\* A board method called directly; the annotations of its parameters are not
\* enforced by the `mixer` hook marker, so the body runs on any operand.
\* History: the call and the messages it handed to its transport.
Command8_method(name, channel, value) ==
    /\ Len(opLog) < MaxOps
    /\ name \in {"mute", "unmute"} => value = 0
    /\ opLog' = Append(opLog,
            [board |-> "Command8", name |-> name, channel |-> channel, value |-> value,
             sent |-> Messages(CASE name = "fader" -> Command8_fader(channel, value)
                                 [] name = "pan" -> Command8_pan(channel, value)
                                 [] name = "mute" -> Command8_mute(channel)
                                 [] OTHER -> Command8_unmute(channel))])
    /\ UNCHANGED <<midiChannel, wire, todo, stateVars, wsVars, xairVars, endpointVars,
                   meterVars>>

Gld_method(hdrChannel, scene) ==
    /\ Len(opLog) < MaxOps
    /\ opLog' = Append(opLog,
            [board |-> "Gld", name |-> "scene_recall", channel |-> hdrChannel,
             value |-> scene, sent |-> Messages(Gld_scene_recall(hdrChannel, scene))])
    /\ UNCHANGED <<midiChannel, wire, todo, stateVars, wsVars, xairVars, endpointVars,
                   meterVars>>

CCNext ==
    \/ \E name \in HookNames, channel \in BuilderChannels, value \in BuilderValues :
            Command8_method(name, channel, value)
    \/ \E c \in GldChannels, scene \in BuilderScenes : Gld_method(c, scene)

(***************************************************************************)
(* SpecCompressor: the compressor builders of Qu24 and Gld.                *)
(***************************************************************************)
\* An optional argument that was not given (None)
None == 0 - 1

\* Python's truth test `if x:` on None or an int
Truthy(x) == x # None /\ x # 0

\* Qu24.compressor / Gld.compressor from argument i on. args: type, attack,
\* release, knee, ratio, threshold, gain, for the parameters 0x61..0x67.
RECURSIVE compressor(_, _, _, _)
compressor(hdrChannel, channel, args, i) ==
    IF i > Len(args) THEN <<>>
    ELSE (IF Truthy(args[i]) THEN nrpn(hdrChannel, channel, 96 + i, args[i], 7)
          ELSE <<>>) \o compressor(hdrChannel, channel, args, i + 1)

\* Argument lists of compressor: at most two arguments given, or all seven,
\* each given one 0 or 1.
CompressorArgs ==
    {args \in [1..7 -> {None, 0, 1}] :
        \/ Cardinality({i \in 1..7 : args[i] # None}) <= 2
        \/ \A i \in 1..7 : args[i] # None}

\* A compressor call on one of the two boards. History: the call and the
\* messages it handed to its transport.
compressor_method(board, hdrChannel, channel, args) ==
    /\ opLog' = <<[board |-> board, name |-> "compressor", channel |-> channel,
                   value |-> args,
                   sent |-> Messages(compressor(hdrChannel, channel, args, 1))]>>
    /\ UNCHANGED <<midiChannel, wire, todo, stateVars, wsVars, xairVars, endpointVars,
                   meterVars>>

CompressorNext ==
    \E board \in {"Qu24", "Gld"}, channel \in CallChannels, args \in CompressorArgs :
        compressor_method(board, midiChannel, channel, args)

(***************************************************************************)
(* SpecCodec: the XAir codec.  The value translations of BoardPlugin, the  *)
(* CC-number mapping of XAirPlugin in both directions, and the inbound     *)
(* handler XAirPlugin._handle_midi_input.                                  *)
(***************************************************************************)
\* BoardPlugin._translate_fader_from_hardware: value / 127.0, in units of 1/254
_translate_fader_from_hardware(value) == 2 * value

\* BoardPlugin._translate_pan_from_hardware: (value / 63.5) - 1.0, in units of
\* 1/254
_translate_pan_from_hardware(value) == 4 * value - Unit

\* int((pan + 1.0) * 63.5) on a pan that came out of a binary floating-point
\* division: where the exact product is an integer the computed one may fall
\* just below it (ulp = 1) and int() then truncates to the integer below.
_translate_pan_to_hardware_float(pan, ulp) ==
    IF ((pan + Unit) * 127) % (2 * Unit) = 0 /\ pan + Unit > 0
    THEN _translate_pan_to_hardware(pan) - ulp
    ELSE _translate_pan_to_hardware(pan)

\* XAirPlugin._cc_to_channel
_cc_to_channel(cc_number) ==
    CASE cc_number \in 0..15 -> <<cc_number + 1, "INPUT">>
      [] cc_number = 16 -> <<17, "INPUT">>
      [] cc_number \in 17..20 -> <<cc_number - 16, "FX_RETURN">>
      [] cc_number \in 21..26 -> <<cc_number - 20, "AUX">>
      [] cc_number \in 27..30 -> <<cc_number - 26, "FX_SEND">>
      [] cc_number = 31 -> <<0, "MAIN">>
      [] OTHER -> <<0, "INPUT">>

\* The channel id _handle_midi_input builds from (channel_index, channel_type)
type_prefix(channel_type) ==
    CASE channel_type = "INPUT" -> "input"
      [] channel_type = "AUX" -> "aux"
      [] channel_type = "FX_RETURN" -> "fx"
      [] channel_type = "FX_SEND" -> "fxsend"
      [] channel_type = "MAIN" -> "main"
      [] OTHER -> "input"

BuildChannelId(channel_index, channel_type) ==
    IF channel_type = "MAIN" THEN <<"main", 0>>
    ELSE <<type_prefix(channel_type), channel_index>>

\* A test that lets every status byte through.
IsControlChange_any(status) == BitAnd(status, 0) = 0

\* The test `(status & 0xF0) == CONTROL_CHANGE` of _handle_midi_input
IsControlChange(status) == BitAnd(status, 240) = CONTROL_CHANGE

\* XAirPlugin._handle_midi_input: the ParameterChange objects handed to
\* _on_parameter_change for one inbound message (none, or one).
_handle_midi_input(message) ==
    IF Len(message) < 3 THEN <<>>
    ELSE LET status == message[1]
             cc_number == message[2]
             value == message[3]
             midi_channel == BitAnd(status, 15)
             ct == _cc_to_channel(cc_number)
             channel_id == BuildChannelId(ct[1], ct[2])
         IN  IF ~IsControlChange(status) THEN <<>>
             ELSE CASE midi_channel = _FADER_CHANNEL ->
                        <<[channel_id |-> channel_id, parameter |-> "fader",
                           value |-> _translate_fader_from_hardware(value),
                           source |-> "hardware"]>>
                    [] midi_channel = _MUTE_CHANNEL ->
                        <<[channel_id |-> channel_id, parameter |-> "mute",
                           value |-> value > 63, source |-> "hardware"]>>
                    [] midi_channel = _PAN_CHANNEL ->
                        <<[channel_id |-> channel_id, parameter |-> "pan",
                           value |-> _translate_pan_from_hardware(value),
                           source |-> "hardware"]>>
                    [] OTHER -> <<>>

\* The channel ids BoardPlugin._create_default_channels creates for the
\* capabilities of XAirPlugin._get_capabilities.
XAirChannelIds ==
    {<<"input", i>> : i \in 1..16} \cup {<<"aux", i>> : i \in 1..6}
        \cup {<<"fx", i>> : i \in 1..4} \cup {<<"main", 0>>}

\* The channels XAirPlugin._get_capabilities declares: those created, and
\* the four FX sends and four DCA groups.
XAirCapabilityIds ==
    XAirChannelIds \cup {<<"fxsend", i>> : i \in 1..4}
        \cup {<<"dca", i>> : i \in 1..4}

\* Inbound messages: Control Change on the fader, mute, pan and a fourth MIDI
\* channel, a Note On, messages shorter than three bytes, and System Exclusive
\* messages with and without the terminating 0xF7.
InboundCCs == {0, 15, 16, 17, 20, 21, 26, 27, 30, 31, 32, 127}
InboundData == {0, 63, 64, 127}
XAirInbound ==
    {<<status, cc, v>> : status \in {176, 177, 178, 179, 144, 240},
                         cc \in InboundCCs, v \in InboundData}
        \cup {<<176, 1>>, <<240>>, <<240, 1>>, <<240, 176, 0, 64, 1>>,
              <<240, 0, 32, 50, 247>>, <<240, 1, 247>>}

\* Pans handed to _translate_pan_to_hardware: the ends, the centre and the
\* values around them.
PanInputs == {0 - Unit, 1 - Unit, 0 - 127, 0 - 2, 0 - 1, 0, 1, 2, 127, Unit - 1, Unit}

\* The MIDI input callback runs for one message.
handle_midi_input(message) ==
    /\ xlast' = [NoCall EXCEPT !.op = "handle_midi_input", !.msgs = <<message>>,
                               !.was_connected = _connected,
                               !.callback = _handle_midi_input(message)]
    /\ UNCHANGED <<_connected, _midi_out, _midi_in, midiVars, stateVars, wsVars,
                   endpointVars, meterVars>>

\* A hardware fader value translated to a level and back, as
\* _handle_midi_input and _send_fader do.
translate_fader(value) ==
    /\ xlast' = [NoCall EXCEPT !.op = "translate_fader", !.value = value,
                    !.callback = <<_translate_fader_from_hardware(value),
                        _translate_fader_to_hardware(
                            _translate_fader_from_hardware(value))>>]
    /\ UNCHANGED <<_connected, _midi_out, _midi_in, midiVars, stateVars, wsVars,
                   endpointVars, meterVars>>

\* _translate_fader_to_hardware on a level of [0, 1]
fader_to_hardware(level) ==
    /\ xlast' = [NoCall EXCEPT !.op = "fader_to_hardware", !.value = level,
                    !.callback = <<_translate_fader_to_hardware(level)>>]
    /\ UNCHANGED <<_connected, _midi_out, _midi_in, midiVars, stateVars, wsVars,
                   endpointVars, meterVars>>

\* A hardware pan value translated to a pan and back
translate_pan(value, ulp) ==
    /\ xlast' = [NoCall EXCEPT !.op = "translate_pan", !.value = value,
                    !.callback = <<_translate_pan_from_hardware(value),
                        _translate_pan_to_hardware_float(
                            _translate_pan_from_hardware(value), ulp)>>]
    /\ UNCHANGED <<_connected, _midi_out, _midi_in, midiVars, stateVars, wsVars,
                   endpointVars, meterVars>>

\* _translate_pan_to_hardware on a pan of [-1, 1]
pan_to_hardware(pan) ==
    /\ xlast' = [NoCall EXCEPT !.op = "pan_to_hardware", !.value = pan,
                    !.callback = <<_translate_pan_to_hardware(pan)>>]
    /\ UNCHANGED <<_connected, _midi_out, _midi_in, midiVars, stateVars, wsVars,
                   endpointVars, meterVars>>

\* A channel id mapped to its CC number and back: channel_id ->
\* (index, type) -> CC number -> (index, type) -> channel_id.
map_channel(channel_id) ==
    LET it == _channel_id_to_index(channel_id)
        cc == _get_cc_number(it[1], it[2])
        back == _cc_to_channel(cc)
    IN  /\ xlast' = [NoCall EXCEPT !.op = "map_channel", !.ch = channel_id,
                        !.value = cc,
                        !.callback = IF cc < 0 THEN <<>>
                                     ELSE <<BuildChannelId(back[1], back[2])>>]
        /\ UNCHANGED <<_connected, _midi_out, _midi_in, midiVars, stateVars,
                       wsVars, endpointVars, meterVars>>

\* A CC number mapped to its channel id and back
map_cc(cc_number) ==
    LET ct == _cc_to_channel(cc_number)
        channel_id == BuildChannelId(ct[1], ct[2])
        it == _channel_id_to_index(channel_id)
    IN  /\ xlast' = [NoCall EXCEPT !.op = "map_cc", !.ch = channel_id,
                        !.value = cc_number,
                        !.callback = <<_get_cc_number(it[1], it[2])>>]
        /\ UNCHANGED <<_connected, _midi_out, _midi_in, midiVars, stateVars,
                       wsVars, endpointVars, meterVars>>

CodecNext ==
    \/ \E message \in XAirInbound : handle_midi_input(message)
    \/ \E value \in 0..127 : translate_fader(value)
    \/ \E level \in 0..Unit : fader_to_hardware(level)
    \/ \E value \in 0..127, ulp \in {0, 1} : translate_pan(value, ulp)
    \/ \E pan \in PanInputs : pan_to_hardware(pan)
    \/ \E channel_id \in XAirCapabilityIds : map_channel(channel_id)
    \/ \E cc_number \in 0..31 : map_cc(cc_number)

(***************************************************************************)
(* Claims checked under SpecCompressor                                     *)
(***************************************************************************)
\* The bytes of one NRPN per given argument, in the order of the parameters
RECURSIVE OnePerGiven(_, _, _, _)
OnePerGiven(hdrChannel, channel, args, i) ==
    IF i > Len(args) THEN <<>>
    ELSE (IF args[i] # None
          THEN << <<BitOr(CONTROL_CHANGE, hdrChannel), 99, channel>>,
                  <<BitOr(CONTROL_CHANGE, hdrChannel), 98, 96 + i>>,
                  <<BitOr(CONTROL_CHANGE, hdrChannel), 6, args[i]>>,
                  <<BitOr(CONTROL_CHANGE, hdrChannel), 38, 7>> >>
          ELSE <<>>) \o OnePerGiven(hdrChannel, channel, args, i + 1)

\* C40: compressor(channel, ...) sends exactly one NRPN for every optional
\* argument that is given (not None), in the order type 0x61, attack 0x62,
\* release 0x63, knee 0x64, ratio 0x65, threshold 0x66, gain 0x67, with
\* data1 the value and data2 0x7, a given value 0 included; an argument that
\* is None sends nothing.
C40_CompressorOnePerGiven ==
    \A i \in 1..Len(opLog) :
        opLog[i].name = "compressor" =>
            opLog[i].sent = OnePerGiven(midiChannel, opLog[i].channel, opLog[i].value, 1)

(***************************************************************************)
(* Claims checked under SpecCodec                                          *)
(***************************************************************************)
\* A System Exclusive message without its terminating 0xF7
Unterminated(message) ==
    Len(message) >= 1 /\ message[1] = 240 /\ message[Len(message)] # 247

\* C31: an inbound message that starts with 0xF0 and does not end with 0xF7
\* is rejected by the inbound handler: the handler does not raise and emits
\* no ParameterChange, whatever the payload bytes are.
C31_UnterminatedSysexRejected ==
    (xlast.op = "handle_midi_input" /\ Unterminated(xlast.msgs[1])) =>
        xlast.callback = <<>> /\ xlast.result # "raised"

\* An unterminated System Exclusive message whose payload reads as a fader
\* Control Change has been handled.
C31_Witness ==
    /\ xlast.op = "handle_midi_input"
    /\ xlast.msgs = <<<<240, 176, 0, 64, 1>>>>
    /\ xlast.callback = <<>>

\* C33: the XAir mapping between channel ids and (index, type) pairs is a
\* total bijection on the declared channels: distinct declared ids have
\* distinct pairs and distinct CC numbers, and channel_id -> (index, type) ->
\* CC number -> (index, type) -> channel_id is the identity for every
\* declared channel and for every CC number 0..31. Every declared channel has
\* a CC number of 0..31 that maps back to it (so distinct ids have distinct
\* pairs and CC numbers), and every CC number of 0..31 names a declared
\* channel that maps back to it.
C33_ChannelMappingBijection ==
    /\ xlast.op = "map_channel" =>
            xlast.value \in 0..31 /\ xlast.callback = <<xlast.ch>>
    /\ xlast.op = "map_cc" =>
            xlast.ch \in XAirCapabilityIds /\ xlast.callback = <<xlast.value>>

\* Python's round() of n / d for n >= 0: to the nearest integer, a half to
\* the even one.
round(n, d) ==
    LET q == n \div d
        r == n % d
    IN  IF 2 * r < d THEN q
        ELSE IF 2 * r > d THEN q + 1
        ELSE IF q % 2 = 0 THEN q ELSE q + 1

\* C34: for every hardware value v of 0..127 the fader translation gives
\* to_hw(from_hw(v)) within [v - 1, v + 1], and for every level of [0, 1]
\* to_hw(level) = round(level * 127), a value of [0, 127].
C34_FaderRoundTrip ==
    /\ xlast.op = "translate_fader" =>
            xlast.callback[2] \in (xlast.value - 1)..(xlast.value + 1)
    /\ xlast.op = "fader_to_hardware" =>
            /\ xlast.callback[1] = round(xlast.value * 127, Unit)
            /\ xlast.callback[1] \in 0..127

\* C35: hardware pan 64 is the centre: from_hw(64) is exactly 0.0 and
\* to_hw(0.0) is 64, and every other hardware pan value p round-trips to
\* within 1 of p.
C35_PanCentre ==
    /\ xlast.op = "translate_pan" =>
            /\ xlast.value = 64 => xlast.callback[1] = 0
            /\ xlast.callback[2] \in (xlast.value - 1)..(xlast.value + 1)
    /\ (xlast.op = "pan_to_hardware" /\ xlast.value = 0) => xlast.callback[1] = 64

\* C36: every ParameterChange the XAir inbound handler emits names a channel
\* id that _create_default_channels creates for the capabilities and a
\* parameter of {fader, mute, pan}; a CC number above 31 emits nothing.
C36_InboundNamesDeclaredChannel ==
    xlast.op = "handle_midi_input" =>
        /\ \A i \in 1..Len(xlast.callback) :
                /\ xlast.callback[i].channel_id \in XAirChannelIds
                /\ xlast.callback[i].parameter \in {"fader", "mute", "pan"}
        /\ (Len(xlast.msgs[1]) >= 2 /\ xlast.msgs[1][2] \notin 0..31) =>
                xlast.callback = <<>>

(***************************************************************************)
(* Claims checked under SpecCC                                             *)
(***************************************************************************)
\* The operands of a recorded builder call are inside their domains.
InDomain(call) ==
    IF call.board = "Command8"
    THEN call.channel \in 0..15 /\ call.value \in 0..127
    ELSE call.channel \in 0..15 /\ call.value \in 1..500

WellFormedCC(m) ==
    Len(m) = 3 /\ m[1] \in 176..191 /\ m[2] \in 0..127 /\ m[3] \in 0..127

\* C29: every message a Control-Change builder hands to its transport is
\* three bytes [0xB0|c, n, v] with c in 0..15 and n, v in 0..127, and a call
\* with an operand outside its domain sends nothing.
C29_ControlChangeWellFormed ==
    \A i \in 1..Len(opLog) :
        /\ \A j \in 1..Len(opLog[i].sent) : WellFormedCC(opLog[i].sent[j])
        /\ ~InDomain(opLog[i]) => opLog[i].sent = <<>>

(***************************************************************************)
(* Claims checked under SpecState                                          *)
(***************************************************************************)
MutatingOps ==
    {"set_fader", "set_mute", "set_pan", "apply_parameter_change", "recall_scene",
     "disconnect_device", "disconnect_all"}

\* The value the claim expects set_fader / set_pan to keep of a request.
ExpectedClamp(param, req) ==
    IF param = "fader"
    THEN (IF req < 0 THEN 0 ELSE IF req > 254 THEN 254 ELSE req)
    ELSE (IF req < -254 THEN -254 ELSE IF req > 254 THEN 254 ELSE req)

\* C1: after set_fader (set_pan) on a known channel, canonical state holds
\* the requested level clamped to [0, 1] (the pan clamped to [-1, 1]), that
\* clamped value is what was passed on, and every registered plugin was
\* passed it.
C1_ClampedStoredAndPassed ==
    (lastOp.op \in {"set_fader", "set_pan"} /\ lastOp.applied) =>
        /\ Channels[lastOp.ch][lastOp.param] = ExpectedClamp(lastOp.param, lastOp.req)
        /\ lastOp.passed = ExpectedClamp(lastOp.param, lastOp.req)
        /\ lastOp.got = Range(lastOp.targets)

\* C2: the mutating operations of the state manager exclude each other: none
\* of them begins while a recall_scene is between its dispatch and its
\* re-synchronisation.
C2_MutualExclusion ==
    lastOp.op \in MutatingOps => ~lastOp.overlapped

\* C5: when one plugin raises during a dispatch, every other registered
\* plugin still receives the operation.
C5_FailureIsolated ==
    lastOp.raiser # "None" =>
        (Range(lastOp.targets) \ {lastOp.raiser}) \subseteq lastOp.got

\* C10: after on_hardware_parameter_change for a channel of canonical state,
\* canonical state holds the reported value for that parameter.
C10_HardwareValueStored ==
    (lastOp.op = "on_hardware_parameter_change" /\ lastOp.applied) =>
        Channels[lastOp.ch][lastOp.param] = lastOp.req

\* The operations that take a change from a caller.
ChangeOps == {"set_fader", "set_mute", "set_pan", "apply_parameter_change"}

\* C11: recall_scene(n) first calls recall_scene(n) on every registered
\* plugin and returns from that loop without an error, then waits, and only
\* afterwards calls sync_state() on every registered plugin; a sync happens
\* only for a recall whose dispatch went through.
C11_RecallDispatchThenSync ==
    /\ lastOp.op = "recall_scene" =>
            lastOp.got = Range(lastOp.targets) /\ lastOp.result = "None"
    /\ lastOp.op = "recall_scene_sync" => lastOp.got = Range(lastOp.targets)

\* C14: a change accepted by set_fader, set_mute, set_pan or
\* apply_parameter_change is one unit: it is in canonical state and every
\* registered plugin has received it, or (not accepted) canonical state is
\* as before and no plugin has received anything.
C14_StoreAndDispatchOneUnit ==
    lastOp.op \in ChangeOps =>
        IF lastOp.applied
        THEN lastOp.got = Range(lastOp.targets)
        ELSE lastOp.got = {} /\ ~lastOp.changed

\* C16: a change addressed to a channel id that canonical state does not
\* hold (or issued when there is no state) gives the caller a not-found
\* signal, changes no field of any channel and reaches no plugin.
C16_UnknownChannelNotFound ==
    (lastOp.op \in ChangeOps /\ ~lastOp.applied) =>
        /\ lastOp.result = "not_found"
        /\ ~lastOp.changed
        /\ lastOp.got = {}

(***************************************************************************)
(* Claims checked under SpecLifecycle                                      *)
(***************************************************************************)
\* C24: after connect_device has returned True, get_state() is a MixerState
\* with exactly the declared channels, each at its defaults, and a device is
\* listed by get_connected_devices().
C24_ConnectCreatesState ==
    (lastOp.op = "connect_device" /\ lastOp.result = "True") =>
        /\ HasState
        /\ Channels = _create_default_channels
        /\ get_connected_devices # {}

\* C25: after disconnect_device(d) of a registered d, d is not listed and
\* canonical state is not d's state (get_channel gives nothing for the
\* channel ids of d); after disconnect_all there is no canonical state.
C25_DisconnectDropsChannels ==
    /\ (lastOp.op = "disconnect_device" /\ lastOp.applied) =>
            \A d \in Range(lastOp.disconnects) :
                /\ d \notin get_connected_devices
                /\ stateRef # d
                /\ \A ch \in DOMAIN pstate[d].channels : get_channel(ch) = <<>>
    /\ lastOp.op = "disconnect_all" => ~HasState

\* C26: with two devices registered, a recall_scene completes and, once it
\* has re-synchronized, canonical state holds the MixerState of each of them.
C26_OneStatePerDevice ==
    (Len(plugins) = 2 /\ lastOp.op \in {"recall_scene", "recall_scene_sync"}) =>
        /\ lastOp.result = "None"
        /\ lastOp.op = "recall_scene_sync" => \A p \in Range(plugins) : stateRef = p

C28_QuFaderEndToEnd ==
    [][(/\ lastOp.op = "connect_device" /\ lastOp.param = "qu24"
        /\ lastOp.result = "True"
        /\ lastOp'.op = "set_fader" /\ lastOp'.ch = <<"input", 1>>
        /\ lastOp'.req = 127)
       => /\ stateRef' # "None"
          /\ pstate'[stateRef'].channels[<<"input", 1>>].fader = 127
          /\ \E channel \in 0..127 :
                [i \in 1..Len(wire'["Qu24"]) |-> wire'["Qu24"][i].msg] =
                    << <<176 + midiChannel, 99, channel>>,
                       <<176 + midiChannel, 98, 23>>,
                       <<176 + midiChannel, 6, 64>>,
                       <<176 + midiChannel, 38, 7>> >>]_vars

(***************************************************************************)
(* Claims checked under SpecParam                                          *)
(***************************************************************************)

\* The closed set of parameter paths: the top-level names, and the fields of
\* compressor, gate and of an existing EQ band.
KnownParameters ==
    {"fader", "mute", "pan", "solo", "compressor.ratio", "gate.hold_ms",
     "eq.bands.0.gain"}

\* C15: apply_parameter_change on a known channel with a path outside the
\* closed set of known targets fails with an error, leaves canonical state
\* unchanged and dispatches nothing.
C15_UnknownPathRejected ==
    (/\ lastOp.op = "apply_parameter_change"
     /\ KnownChannel(lastOp.ch)
     /\ lastOp.param \notin KnownParameters) =>
        /\ lastOp.result = "raised"
        /\ ~lastOp.changed
        /\ lastOp.got = {}

\* The declared ranges of the numeric fields of a channel.
BandInRange(b) ==
    /\ DOMAIN b = DOMAIN EQBand
    /\ b.frequency \in 20..20000
    /\ b.q \in 1..200

ChannelInRange(c) ==
    /\ c.fader \in 0..Unit
    /\ c.pan \in (0 - Unit)..Unit
    /\ c.compressor.ratio \in 1..100
    /\ c.compressor.knee \in 0..Unit
    /\ \A i \in DOMAIN c.eq.bands : BandInRange(c.eq.bands[i])

\* C17: in every reachable canonical state every numeric channel field is
\* inside its declared range, whatever was passed to apply_parameter_change.
C17_FieldsInRange ==
    HasState => \A ch \in DOMAIN Channels : ChannelInRange(Channels[ch])

\* C19: applying the same ParameterChange a second time, right after the
\* first, leaves canonical state as the first application left it.
C19_ApplyTwiceIsApplyOnce ==
    (lastOp.op = "apply_parameter_change" /\ lastOp.repeat) => ~lastOp.changed

\* C19's case: a ParameterChange was applied twice in a row on a known
\* channel and canonical state holds what it carries.
C19_Witness ==
    /\ lastOp.op = "apply_parameter_change" /\ lastOp.repeat /\ lastOp.applied
    /\ KnownChannel(lastOp.ch)
    /\ \/ lastOp.param = "fader" /\ Channels[lastOp.ch].fader = ClampFader(lastOp.req)
       \/ /\ lastOp.param = "compressor.ratio"
          /\ Channels[lastOp.ch].compressor.ratio = lastOp.req

(***************************************************************************)
(* Claims checked under SpecXAir                                           *)
(***************************************************************************)

\* C12: while the plugin is not connected (never connected, connect failed,
\* or disconnected) set_fader, set_mute and set_pan return without raising
\* and hand no message to the transport, and a state-manager set_* on a
\* channel of canonical state still stores the value there.
C12_NotConnectedDropsSilently ==
    (xlast.op \in {"plugin_set", "manager_set"} /\ ~xlast.was_connected) =>
        /\ xlast.result # "raised"
        /\ xlast.msgs = <<>>
        /\ (xlast.op = "manager_set" /\ xlast.result # "not applied") =>
                Channels[xlast.ch][xlast.field] = xlast.value

\* C13: a connect() whose hardware open fails ends in status Error, returns
\* False without raising and calls the connection-status callback with
\* connected = False and a cause; a connect() that opens ends in Connected,
\* a disconnect() in Disconnected.
C13_ConnectFailureIsError ==
    /\ (xlast.op = "connect" /\ xlast.outcome # "opened") =>
            /\ xlast.status = "error"
            /\ xlast.result = "False"
            /\ xlast.callback[1] = FALSE /\ xlast.callback[2] # "None"
    /\ (xlast.op = "connect" /\ xlast.outcome = "opened") =>
            xlast.status = "connected" /\ xlast.result = "True"
    /\ xlast.op = "disconnect" => xlast.status = "disconnected"

\* The channel ids inside the XAir's declared capabilities: 16 inputs, 6 aux,
\* 4 fx returns, 4 fx sends, 4 DCA groups, and main.
DeclaredByCapabilities(channel_id) ==
    \/ channel_id[1] \in {"input", "ch"} /\ channel_id[2] \in 1..16
    \/ channel_id[1] = "aux" /\ channel_id[2] \in 1..6
    \/ channel_id[1] \in {"fx", "fxsend", "dca"} /\ channel_id[2] \in 1..4
    \/ channel_id = <<"main", 0>>

\* C18: set_fader, set_mute or set_pan of the plugin on a channel id outside
\* the declared capabilities fails with an error and hands no message to the
\* transport.
C18_InvalidChannelRejected ==
    (xlast.op = "plugin_set" /\ ~DeclaredByCapabilities(xlast.ch)) =>
        xlast.result = "raised" /\ xlast.msgs = <<>>

\* C23: when the transport's send raises during a plugin's set_fader,
\* set_mute or set_pan, the call (on the plugin or through the state
\* manager) does not raise, and the connection-status callback is invoked.
C23_SendFailureCaughtInPlugin ==
    (xlast.op \in {"plugin_set", "manager_set"} /\ xlast.send_raised) =>
        xlast.result # "raised" /\ xlast.callback # <<>>

\* C32: an operation of the capability contract that the model does not
\* support (for XAir over MIDI: set_send_level, set_solo, recall_scene,
\* start_meters, set_channel_name) is a silent no-op: it does not raise and
\* sends no message; StateManager.recall_scene completes without an error
\* for every registered plugin.
C32_UnsupportedIsSilentNoOp ==
    /\ xlast.op = "unsupported" => xlast.result # "raised" /\ xlast.msgs = <<>>
    /\ lastOp.op = "recall_scene" => lastOp.result # "raised"

(***************************************************************************)
(* Claims checked under SpecWs                                             *)
(***************************************************************************)

\* C6: an observer whose subscription set is non-empty and does not contain
\* channel c never receives a broadcast that carries a parameter change for
\* c, be it a single-parameter or a batch message, and it still receives
\* every full-state broadcast.
C6_FilteredObserverNeverReceives ==
    /\ \A k \in 1..Len(tasks) : ~tasks[k].leaked
    /\ ~lastDone.leaked
    /\ lastDone.kind = "state" => ~lastDone.missedFiltered

\* C7: a parameter change submitted by an observer over its own connection
\* is never delivered back to that observer, and is delivered to every other
\* registered observer that is unfiltered or subscribed to the channel.
C7_NoEchoAndAllOthers ==
    lastDone.kind = "parameter" /\ lastDone.exclude # 0 =>
        ~lastDone.echoed /\ ~lastDone.missed

\* C8: if sending to one observer fails during a broadcast of any kind, every
\* other eligible observer still receives the message, and the failed
\* observer is removed from the connection list and the subscription map.
C8_FailedSendIsolatedAndPruned ==
    lastDone.failed => ~lastDone.missed /\ lastDone.pruned

\* C38: a broadcast that is in progress while observers connect, disconnect
\* or are pruned still delivers its message to every eligible observer that
\* was registered when it started and is still registered when it ends: it
\* skips no such observer and sends to none of them twice.
C38_BroadcastUnderChurn ==
    lastDone.kind # "none" => ~lastDone.missed /\ ~lastDone.twice

(***************************************************************************)
(* Claims checked under SpecRequest                                        *)
(***************************************************************************)
\* C37: whenever a parameter message is delivered to an observer as the
\* result of a REST or WebSocket change request, canonical state holds
\* exactly the value the message carries: no observer is sent a level that
\* was not clamped or a change to a channel that was not applied.
C37_DeliveredIsCanonical ==
    /\ \A k \in 1..Len(tasks) : ~tasks[k].stale
    /\ ~lastDone.stale

(***************************************************************************)
(* Claims checked under SpecEndpoint                                       *)
(***************************************************************************)
\* C20: an observer whose endpoint has reached receive_json (the first point
\* at which a message from it can be processed) is registered and has got,
\* as its first message, a "state" snapshot equal to the canonical state at
\* the moment it was registered.
C20_SnapshotOnConnect ==
    \A o \in EndpointObservers :
        pc[o] \in {"receive", "send_pong"} =>
            /\ o \in Range(connections)
            /\ inbox[o] # <<>>
            /\ inbox[o][1] = Message("state", atConnect[o])

(***************************************************************************)
(* Claims checked under SpecSnapshot                                       *)
(***************************************************************************)
\* C39: when canonical state exists, the first message a newly connected
\* observer receives is its snapshot: no broadcast's send to it is started
\* before its endpoint has called send_json for the snapshot, and whatever
\* it has received begins with the "state" message, under every
\* interleaving of the endpoint with the broadcasts.
C39_SnapshotFirst ==
    \A o \in EndpointObservers :
        /\ (HasState /\ pc[o] \in {"new", "accepting"}) =>
                /\ inbox[o] = <<>>
                /\ \A k \in 1..Len(tasks) : tasks[k].waiting # o
        /\ (atConnect[o].exists /\ inbox[o] # <<>>) => inbox[o][1].type = "state"

\* A broadcast is waiting in its send to an observer that registered with
\* canonical state there and whose snapshot send has not returned yet.
C39_Witness ==
    \E o \in EndpointObservers :
        /\ atConnect[o].exists
        /\ pc[o] = "send_state"
        /\ \E k \in 1..Len(tasks) : tasks[k].waiting = o

(***************************************************************************)
(* Claims checked under SpecMeter                                          *)
(***************************************************************************)
\* C21: the meter loop is over only after a cancel; an iteration that raised
\* leaves it in the back-off sleep, from which the next iteration starts
\* (unless the task is cancelled first); and whatever the parameter traffic
\* has done, a loop whose sleep is over and that is not cancelled can take
\* its next iteration.
C21_MeterLoopSurvivesErrors ==
    /\ [](meter_pc = "done" => cancel_requested)
    /\ []((mlast.step = "iterate" /\ mlast.raised) => meter_pc = "backoff")
    /\ []((meter_pc \in {"created", "sleep", "backoff"} /\ ~cancel_pending) =>
            ENABLED (\E raises \in BOOLEAN : meter_iterate(raises)))
    /\ \A b \in {0, 1} :
            (meter_pc = "backoff" /\ mlast.n = b) ~> (mlast.n # b \/ cancel_requested)

\* An iteration has started from the back-off sleep.
C21_Witness == mlast.step = "iterate" /\ mlast.at = "backoff" /\ ~cancel_requested

\* C22: once lifespan has cancelled the meter task, the loop ends, and no
\* meter message is delivered after the cancel.
C22_CancelEndsMeterLoop ==
    /\ [](~mlast.late)
    /\ cancel_requested ~> (meter_pc = "done")

\* The task was cancelled while suspended in a send_json of broadcast_meters.
C22_Witness ==
    cancel_requested /\ meter_pc = "done" /\ mlast.step = "cancelled" /\ mlast.at = "send"

(***************************************************************************)
(* Claims checked under SpecMidi                                           *)
(***************************************************************************)
OpDone(id) == \A t \in Threads : \A i \in 1..Len(todo[t]) : todo[t][i].op # id

BytesOf(dev, id) ==
    LET mine == SelectSeq(wire[dev], LAMBDA m : m.op = id)
    IN  [i \in 1..Len(mine) |-> mine[i].msg]

IsPrefix(s, t) == Len(s) <= Len(t) /\ \A i \in 1..Len(s) : s[i] = t[i]

\* What the claim expects on the Qu24 transport for one fader or pan call.
ExpectedNrpn(op) ==
    LET hdr == 176 + midiChannel
    IN  << <<hdr, 99, op.channel>>,
           <<hdr, 98, IF op.name = "fader" THEN 23 ELSE 22>>,
           <<hdr, 6, op.value>>,
           <<hdr, 38, 7>> >>

\* C3: on the Qu24's transport the four Control-Change messages of an NRPN
\* sequence are contiguous: once the first one (controller 0x63) is on the
\* wire, the next three messages on that wire are the 2nd, 3rd and 4th message
\* of the same sequence, whatever the other thread sends meanwhile.
C3_NrpnContiguous ==
    LET w == wire["Qu24"]
    IN  \A i \in 1..Len(w) :
            w[i].k = 1 =>
                \A j \in 1..3 :
                    i + j <= Len(w) => (w[i + j].op = w[i].op /\ w[i + j].k = j + 1)

\* C4: a call of nrpn(channel, param, data1, data2) puts on the transport
\* exactly the four Control-Change messages (0x63, channel), (0x62, param),
\* (0x06, data1), (0x26, data2), in this order, all with status byte
\* 0xB0 | midiChannel: while the call runs its messages are a prefix of these
\* four, and when it has returned they are exactly these four.
C4_NrpnFourMessages ==
    \A id \in 1..Len(opLog) :
        (opLog[id].kind = "hook" /\ opLog[id].name \in {"fader", "pan"}) =>
            /\ IsPrefix(BytesOf("Qu24", id), ExpectedNrpn(opLog[id]))
            /\ OpDone(id) => BytesOf("Qu24", id) = ExpectedNrpn(opLog[id])

\* C4's case: nrpn(5, 0x17, 100, 7) has returned and its four messages carry
\* the values 5, 0x17, 100, 7.
C4_Witness ==
    \E id \in 1..Len(opLog) :
        /\ opLog[id].kind = "hook" /\ opLog[id].name = "fader"
        /\ opLog[id].channel = 5 /\ opLog[id].value = 100
        /\ OpDone(id)
        /\ Len(BytesOf("Qu24", id)) = 4
        /\ [i \in 1..4 |-> BytesOf("Qu24", id)[i][3]] = <<5, 23, 100, 7>>
        /\ [i \in 1..4 |-> BytesOf("Qu24", id)[i][2]] = <<99, 98, 6, 38>>

\* C9: handling a message that came from the hardware never puts a message
\* on any transport: no board's inbound handler invokes an outgoing
\* operation, so no message on a wire was sent by the input callback.
C9_NoOutboundFromInbound ==
    \A d \in Devices : \A i \in 1..Len(wire[d]) : wire[d][i].origin # "inbound"

\* C30: no inbound message makes the input callback raise: every inbound
\* callback started so far was either forwarded as a hook call or ignored.
C30_InboundNeverRaises ==
    \A id \in 1..Len(opLog) :
        opLog[id].origin = "inbound" => opLog[id].kind \in {"hook", "none"}

(***************************************************************************)
(* Specifications                                                          *)
(***************************************************************************)
\* Every specification starts from the state after construction of all three
\* subsystems: Midi.__init__, StateManager.__init__, ConnectionManager.__init__.
MidiInit ==
    /\ midiChannel \in {0, 3}
    /\ wire = [d \in Devices |-> <<>>]
    /\ todo = [t \in Threads |-> <<>>]
    /\ opLog = <<>>
    /\ plugins = <<>>
    /\ stateRef = "None"
    /\ pstate = [p \in PluginIds |-> NoMixerState]
    /\ settling = 0
    /\ lastOp = NoOp
    /\ connections = <<>>
    /\ subscriptions = [o \in Observers |-> NoSubscription]
    /\ open = {}
    /\ tasks = <<>>
    /\ lastDone = NoBroadcast
    /\ _connected = FALSE
    /\ _midi_out = "None"
    /\ _midi_in = "None"
    /\ xlast = NoCall
    /\ pc = [o \in Observers |-> "new"]
    /\ sending = [o \in Observers |-> NoMessage]
    /\ inbox = [o \in Observers |-> <<>>]
    /\ atConnect = [o \in Observers |-> NoMixerState]
    /\ meter_pc = "created"
    /\ meter_to = 0
    /\ meter_i = 0
    /\ meter_disconnected = <<>>
    /\ cancel_pending = FALSE
    /\ cancel_requested = FALSE
    /\ _meters = FALSE
    /\ mlast = NoMeterStep

StateInit ==
    /\ plugins = <<>>
    /\ stateRef = "None"
    /\ pstate = [p \in PluginIds |-> NoMixerState]
    /\ settling = 0
    /\ lastOp = NoOp
    /\ midiChannel = 0
    /\ wire = [d \in Devices |-> <<>>]
    /\ todo = [t \in Threads |-> <<>>]
    /\ opLog = <<>>
    /\ connections = <<>>
    /\ subscriptions = [o \in Observers |-> NoSubscription]
    /\ open = {}
    /\ tasks = <<>>
    /\ lastDone = NoBroadcast
    /\ _connected = FALSE
    /\ _midi_out = "None"
    /\ _midi_in = "None"
    /\ xlast = NoCall
    /\ pc = [o \in Observers |-> "new"]
    /\ sending = [o \in Observers |-> NoMessage]
    /\ inbox = [o \in Observers |-> <<>>]
    /\ atConnect = [o \in Observers |-> NoMixerState]
    /\ meter_pc = "created"
    /\ meter_to = 0
    /\ meter_i = 0
    /\ meter_disconnected = <<>>
    /\ cancel_pending = FALSE
    /\ cancel_requested = FALSE
    /\ _meters = FALSE
    /\ mlast = NoMeterStep

WsInit ==
    /\ connections = <<>>
    /\ subscriptions = [o \in Observers |-> NoSubscription]
    /\ open = {}
    /\ tasks = <<>>
    /\ lastDone = NoBroadcast
    /\ plugins = <<>>
    /\ stateRef = "None"
    /\ pstate = [p \in PluginIds |-> NoMixerState]
    /\ settling = 0
    /\ lastOp = NoOp
    /\ midiChannel = 0
    /\ wire = [d \in Devices |-> <<>>]
    /\ todo = [t \in Threads |-> <<>>]
    /\ opLog = <<>>
    /\ _connected = FALSE
    /\ _midi_out = "None"
    /\ _midi_in = "None"
    /\ xlast = NoCall
    /\ pc = [o \in Observers |-> "new"]
    /\ sending = [o \in Observers |-> NoMessage]
    /\ inbox = [o \in Observers |-> <<>>]
    /\ atConnect = [o \in Observers |-> NoMixerState]
    /\ meter_pc = "created"
    /\ meter_to = 0
    /\ meter_i = 0
    /\ meter_disconnected = <<>>
    /\ cancel_pending = FALSE
    /\ cancel_requested = FALSE
    /\ _meters = FALSE
    /\ mlast = NoMeterStep

SpecMidi == MidiInit /\ [][MidiNext]_vars
SpecState == StateInit /\ [][StateNext]_vars
SpecWs == WsInit /\ [][WsNext]_vars
SpecEndpoint == WsInit /\ [][EndpointNext]_vars
SpecLifecycle == StateInit /\ [][LifecycleNext]_vars
SpecCC == MidiInit /\ [][CCNext]_vars

\* The event loop runs a task whose timer has expired and delivers a requested
\* cancellation; a send_json in flight returns or raises.
SpecMeter ==
    /\ WsInit /\ [][MeterNext]_vars
    /\ WF_vars(\E raises \in BOOLEAN : meter_iterate(raises))
    /\ WF_vars(\E outcome \in SendOutcomes : meter_send_json(outcome))
    /\ WF_vars(meter_cancelled_error)
SpecParam == StateInit /\ [][ParamNext]_vars
SpecXAir == StateInit /\ [][XAirNext]_vars
SpecCodec == StateInit /\ [][CodecNext]_vars
SpecRequest == WsInit /\ [][RequestNext]_vars
SpecSnapshot == WsInit /\ [][SnapshotNext]_vars
SpecCompressor == MidiInit /\ [][CompressorNext]_vars

====
